---- MODULE Spec2Model ----
(***************************************************************************)
(* BoundaryBox (bbox.py): a PDF page is scaled into a bordered frame.      *)
(* The model covers the page-range selector, the per-page geometry of the  *)
(* two rendering back ends (PyMuPDF: process_pdf_high_quality, pypdf +     *)
(* ReportLab: process_pdf_standard), the colour parser, the text anchors   *)
(* and page numbers, and the control flow of main().                       *)
(*                                                                         *)
(* Specifications: SpecRange (parse_page_range), SpecColor (parse_color),  *)
(* SpecText (calculate_text_position), SpecFormat (format_page_number),    *)
(* SpecGeom (one page through either back end), SpecStages (the page loops *)
(* statement group by statement group) and Spec (a run of main()).         *)
(*                                                                         *)
(* Strings are sequences of one-character strings.  Lengths in points are  *)
(* exact rationals <<n, d>> in lowest terms with d > 0 (Python computes    *)
(* them in binary floating point; the model is the exact arithmetic the    *)
(* code approximates).                                                     *)
(***************************************************************************)
EXTENDS Integers, Sequences, FiniteSets, TLC

VARIABLES
    pc,             \* position of the program
    page_range_str, \* args.pages
    doc,            \* the input document: sequence of <<width, height>>
    cfg,            \* the remaining arguments and configuration
    page_indices,   \* result of parse_page_range / parameter of process_pdf_*
    warnings,       \* number of warning lines printed
    idx,            \* number of loop iterations completed in process_pdf_*
    output_doc,     \* the pages appended to the output document so far
    file_written,   \* TRUE once the output file has been saved
    exit_status,    \* -1 while running, else the process exit status
    report,         \* the last status line printed ("none" before the first)
    border_color,   \* result of parse_color (<<>> before the call)
    color_rgb,      \* the 0-255 triple display_settings prints (<<>> before)
    text_pos,       \* arguments and result of a call of calculate_text_position
    texts,          \* the page numbers drawn so far, in drawing order
    stage,          \* stage of each selected page, by position in page_indices
    confirm_calls,  \* the value each call of confirm_proceed returned, in order
    page_text,      \* arguments and result of a call of format_page_number
    titles          \* the titles drawn so far, in drawing order

vars == <<pc, page_range_str, doc, cfg, page_indices, warnings, idx,
          output_doc, file_written, exit_status, report,
          border_color, color_rgb, text_pos, texts, stage,
          confirm_calls, page_text,
          titles>>

----------------------------------------------------------------------------
(* Exact rational arithmetic *)

Abs(n) == IF n < 0 THEN -n ELSE n

RECURSIVE GCD(_, _)
GCD(a, b) == IF b = 0 THEN a ELSE GCD(b, a % b)

\* the rational n/d (d # 0) in lowest terms with a positive denominator
Q(n, d) ==
    LET s == IF d < 0 THEN -1 ELSE 1
        g == GCD(Abs(n), Abs(d))
    IN  <<(s * n) \div g, (s * d) \div g>>

RInt(n) == <<n, 1>>
RAdd(a, b) == Q(a[1] * b[2] + b[1] * a[2], a[2] * b[2])
RSub(a, b) == Q(a[1] * b[2] - b[1] * a[2], a[2] * b[2])
RMul(a, b) == Q(a[1] * b[1], a[2] * b[2])
RDiv(a, b) == Q(a[1] * b[2], a[2] * b[1])
RLe(a, b) == a[1] * b[2] <= b[1] * a[2]
RLt(a, b) == a[1] * b[2] < b[1] * a[2]
RMin(a, b) == IF RLe(a, b) THEN a ELSE b
RHalf(a) == Q(a[1], 2 * a[2])

----------------------------------------------------------------------------
(* Strings *)

Digits == {"0", "1", "2", "3", "4", "5", "6", "7", "8", "9"}

DigitVal(c) ==
    CASE c = "0" -> 0 [] c = "1" -> 1 [] c = "2" -> 2 [] c = "3" -> 3
      [] c = "4" -> 4 [] c = "5" -> 5 [] c = "6" -> 6 [] c = "7" -> 7
      [] c = "8" -> 8 [] c = "9" -> 9

\* str.lower() on the alphabet of the model
LowerChar(c) == CASE c = "A" -> "a" [] c = "L" -> "l" [] OTHER -> c
Lower(s) == [i \in 1..Len(s) |-> LowerChar(s[i])]

\* str.strip(): leading and trailing blanks removed
RECURSIVE LStrip(_)
LStrip(s) == IF s # <<>> /\ Head(s) = " " THEN LStrip(Tail(s)) ELSE s

RECURSIVE RStrip(_)
RStrip(s) ==
    IF s # <<>> /\ s[Len(s)] = " " THEN RStrip(SubSeq(s, 1, Len(s) - 1)) ELSE s

Strip(s) == RStrip(LStrip(s))

\* str.split(sep): the pieces between the separators, left to right
RECURSIVE SplitAcc(_, _, _)
SplitAcc(s, sep, cur) ==
    IF s = <<>> THEN <<cur>>
    ELSE IF Head(s) = sep THEN <<cur>> \o SplitAcc(Tail(s), sep, <<>>)
    ELSE SplitAcc(Tail(s), sep, Append(cur, Head(s)))

Split(s, sep) == SplitAcc(s, sep, <<>>)

\* 'sep in s'
Contains(s, c) == \E i \in 1..Len(s) : s[i] = c

\* int(s): blanks around the digits are accepted; anything else, and the
\* empty string, is a ValueError
RECURSIVE DecimalValue(_, _)
DecimalValue(s, acc) ==
    IF s = <<>> THEN acc ELSE DecimalValue(Tail(s), 10 * acc + DigitVal(Head(s)))

IntOk(s) ==
    LET t == Strip(s) IN t # <<>> /\ \A i \in 1..Len(t) : t[i] \in Digits

IntValue(s) == DecimalValue(Strip(s), 0)

----------------------------------------------------------------------------
(* parse_page_range *)

Max(a, b) == IF a >= b THEN a ELSE b
Min(a, b) == IF a <= b THEN a ELSE b

\* list(range(n))
RangeList(n) == [i \in 1..n |-> i - 1]

\* mutant of SortedList: the list is returned in descending order
RECURSIVE DescendingList(_)
DescendingList(S) ==
    IF S = {} THEN <<>>
    ELSE LET m == CHOOSE x \in S : \A y \in S : x >= y
         IN  <<m>> \o DescendingList(S \ {m})

\* sorted(list(pages)): the elements of a finite set of integers, ascending
RECURSIVE SortedList(_)
SortedList(S) ==
    IF S = {} THEN <<>>
    ELSE LET m == CHOOSE x \in S : \A y \in S : x <= y
         IN  <<m>> \o SortedList(S \ {m})

\* mutant of RangePart: the end of the range is excluded,
\* range(max(1, start), min(total_pages, end))
RangePartExclusiveEnd(part, total_pages) ==
    LET pieces == Split(part, "-") IN
    IF Len(pieces) # 2 \/ ~IntOk(Strip(pieces[1])) \/ ~IntOk(Strip(pieces[2]))
    THEN [add |-> {}, warn |-> 0, exc |-> "ValueError"]
    ELSE LET start == IntValue(Strip(pieces[1]))
             end == IntValue(Strip(pieces[2]))
         IN  [add |-> {page - 1 : page \in
                          Max(1, start)..(Min(total_pages, end) - 1)},
              warn |-> 0, exc |-> "none"]

\* the body of the try block for a part that contains '-':
\*   start, end = part.split('-'); int(start.strip()); int(end.strip());
\*   for page in range(max(1, start), min(total_pages + 1, end + 1)): add page - 1
RangePart(part, total_pages) ==
    LET pieces == Split(part, "-") IN
    IF Len(pieces) # 2 \/ ~IntOk(Strip(pieces[1])) \/ ~IntOk(Strip(pieces[2]))
    THEN [add |-> {}, warn |-> 0, exc |-> "ValueError"]
    ELSE LET start == IntValue(Strip(pieces[1]))
             end == IntValue(Strip(pieces[2]))
         IN  [add |-> {page - 1 : page \in
                          Max(1, start)..(Min(total_pages + 1, end + 1) - 1)},
              warn |-> 0, exc |-> "none"]

\* the body of the try block for a part without '-'
SinglePart(part, total_pages) ==
    IF ~IntOk(part) THEN [add |-> {}, warn |-> 0, exc |-> "ValueError"]
    ELSE LET page_num == IntValue(part) IN
         IF 1 <= page_num /\ page_num <= total_pages
         THEN [add |-> {page_num - 1}, warn |-> 0, exc |-> "none"]
         ELSE [add |-> {}, warn |-> 1, exc |-> "none"]

\* mutant of ExceptValueError: no handler, the error leaves the loop
NoExceptClause(r) == r

\* 'except ValueError: print(...)': the error becomes one warning line
ExceptValueError(r) ==
    IF r.exc = "ValueError" THEN [add |-> r.add, warn |-> r.warn + 1, exc |-> "none"]
    ELSE r

\* one iteration of 'for part in parts'
ParsePart(rawpart, total_pages) ==
    LET part == Strip(rawpart) IN
    IF Contains(part, "-") THEN ExceptValueError(RangePart(part, total_pages))
    ELSE ExceptValueError(SinglePart(part, total_pages))

\* the loop over the parts; an exception that leaves an iteration ends it
RECURSIVE ParseLoop(_, _, _)
ParseLoop(parts, total_pages, acc) ==
    IF parts = <<>> \/ acc.exc # "none" THEN acc
    ELSE LET r == ParsePart(Head(parts), total_pages) IN
         ParseLoop(Tail(parts), total_pages,
                   [add |-> acc.add \cup r.add, warn |-> acc.warn + r.warn,
                    exc |-> r.exc])

\* parse_page_range(page_range_str, total_pages):
\* ret is the list returned, warn the warning lines printed, raised whether
\* an exception left the function
parse_page_range(str, total_pages) ==
    IF str = <<>> \/ Lower(str) = <<"a", "l", "l">>
    THEN [ret |-> RangeList(total_pages), warn |-> 0, raised |-> FALSE]
    ELSE LET r == ParseLoop(Split(str, ","), total_pages,
                            [add |-> {}, warn |-> 0, exc |-> "none"])
         IN  IF r.exc # "none"
             THEN [ret |-> <<>>, warn |-> r.warn, raised |-> TRUE]
             ELSE [ret |-> SortedList(r.add), warn |-> r.warn, raised |-> FALSE]

----------------------------------------------------------------------------
(* parse_color and the 0-255 form of a colour *)

\* int(s) on a colour component: blanks around an optionally signed run of
\* digits are accepted; anything else, and the empty string, is a ValueError
Unsigned(s) ==
    LET t == Strip(s) IN
    IF t # <<>> /\ Head(t) \in {"+", "-"} THEN Tail(t) ELSE t

SignedIntOk(s) ==
    LET u == Unsigned(s) IN u # <<>> /\ \A i \in 1..Len(u) : u[i] \in Digits

SignedIntValue(s) ==
    LET t == Strip(s)
        v == DecimalValue(Unsigned(s), 0)
    IN  IF Head(t) = "-" THEN -v ELSE v

\* a parse_color whose try has no except clause: the exception leaves it
NoBareExcept(color) == [ret |-> <<>>, warn |-> 0, raised |-> TRUE]

Black == <<RInt(0), RInt(0), RInt(0)>>

\* except: print("Invalid color format ... Using black."); return (0, 0, 0)
BareExcept(color) == [ret |-> Black, warn |-> 1, raised |-> FALSE]

\* a parse_color that divides by 256
ComponentOver256(part) == Q(SignedIntValue(part), 256)

\* int(x) / 255.0
Component(part) == Q(SignedIntValue(part), 255)

\* parse_color(color_string); color is the value passed, with its Python type
\* (a value without .split raises AttributeError inside the try)
parse_color(color) ==
    IF color.type # "str" THEN BareExcept(color)
    ELSE LET parts == Split(color.value, ",") IN
         IF Len(parts) # 3 THEN BareExcept(color)
         ELSE IF \E i \in 1..3 : ~SignedIntOk(parts[i]) THEN BareExcept(color)
         ELSE [ret |-> [i \in 1..3 |-> Component(parts[i])],
               warn |-> 0, raised |-> FALSE]

\* int(x) on a float: truncation towards zero
RTrunc(r) == IF r[1] >= 0 THEN r[1] \div r[2] ELSE -((-r[1]) \div r[2])

\* tuple(int(c * 255) for c in border_color)
ColorRGB(color) == [i \in 1..Len(color) |-> RTrunc(RMul(color[i], RInt(255)))]

----------------------------------------------------------------------------
(* Geometry of one page: the loop bodies of process_pdf_high_quality and   *)
(* process_pdf_standard.  W, H are the page's width and height, c the      *)
(* parameters of the call.                                                 *)

\* absolute cap of the corner radius, in points
MaxCornerRadius == 50

\* a total margin with a gutter of one point added
TotalMarginWithGutter(c) == RInt(c.outer_margin + c.inner_padding + 1)

\* total_margin = outer_margin + inner_padding
TotalMargin(c) == RInt(c.outer_margin + c.inner_padding)

\* available_width = orig_width - 2 * total_margin (and the same for height)
Available(len, c) == RSub(RInt(len), RMul(RInt(2), TotalMargin(c)))

\* scale_x = available_width / orig_width (and scale_y)
ScaleOf(len, c) == RDiv(Available(len, c), RInt(len))

\* mutant of Centred: the free space is not halved
CentredNotHalved(len, scale_factor, c) ==
    RAdd(TotalMargin(c),
         RSub(Available(len, c), RMul(RInt(len), scale_factor)))

\* x_offset = total_margin + (available_width - scaled_width) / 2
Centred(len, scale_factor, c) ==
    RAdd(TotalMargin(c),
         RHalf(RSub(Available(len, c), RMul(RInt(len), scale_factor))))

\* mutant of BorderCornersHQ: the border is drawn at the content's margin
BorderCornersAtTotalMargin(W, H, c) ==
    <<TotalMargin(c), TotalMargin(c),
      RSub(RInt(W), TotalMargin(c)), RSub(RInt(H), TotalMargin(c))>>

\* x0, y0, x1, y1 of the border as process_pdf_high_quality sets them
BorderCornersHQ(W, H, c) ==
    <<RInt(c.outer_margin), RInt(c.outer_margin),
      RSub(RInt(W), RInt(c.outer_margin)), RSub(RInt(H), RInt(c.outer_margin))>>

\* c.rect / c.roundRect(x, y, width, height) of process_pdf_standard, as corners
BorderCornersStd(W, H, c) ==
    LET x == RInt(c.outer_margin)
        y == RInt(c.outer_margin)
        w == RSub(RInt(W), RMul(RInt(2), RInt(c.outer_margin)))
        h == RSub(RInt(H), RMul(RInt(2), RInt(c.outer_margin)))
    IN  <<x, y, RAdd(x, w), RAdd(y, h)>>

\* mutant of ActualRadius: the absolute cap is missing
ActualRadiusNoCap(width, height, c) ==
    RMin(RInt(c.corner_radius), RMin(RHalf(width), RHalf(height)))

\* max_radius = min(width / 2, height / 2, 50); actual_radius = min(corner_radius, max_radius)
ActualRadius(width, height, c) ==
    LET max_radius == RMin(RMin(RHalf(width), RHalf(height)), RInt(MaxCornerRadius))
    IN  RMin(RInt(c.corner_radius), max_radius)

IsRounded(c) == c.border_style = "rounded" /\ c.corner_radius > 0

\* cos and sin of a whole number of degrees that is a multiple of 90
Cos90(a) == IF a % 360 = 0 THEN 1 ELSE IF a % 360 = 180 THEN -1 ELSE 0
Sin90(a) == IF a % 360 = 90 THEN 1 ELSE IF a % 360 = 270 THEN -1 ELSE 0

\* a coordinate u + r * cos(a) or u + r * sin(a), a in degrees: the exact
\* value <<"at", q>> where a is a multiple of 90, else the term itself
PolarCoord(fn, u, r, a) ==
    IF a % 90 = 0
    THEN <<"at", RAdd(u, RMul(r, RInt(IF fn = "cos" THEN Cos90(a) ELSE Sin90(a))))>>
    ELSE <<fn, u, r, a % 360>>

\* fitz.Point(center.x + actual_radius * math.cos(rad), center.y + actual_radius * math.sin(rad))
PolarPoint(cx, cy, r, a) == <<PolarCoord("cos", cx, r, a), PolarCoord("sin", cy, r, a)>>

\* fitz.Point(x, y)
Point(x, y) == << <<"at", x>>, <<"at", y>> >>

\* number of line segments of a corner arc and the angle of each, in degrees
ArcSegments == 10
ArcStep == 9

\* a corner loop that runs over range(9)
ArcOneShort(cx, cy, r, start) ==
    [i \in 1..(ArcSegments - 1) |->
        [p1 |-> PolarPoint(cx, cy, r, start + (i - 1) * ArcStep),
         p2 |-> PolarPoint(cx, cy, r, start + i * ArcStep)]]

\* for i in range(10): shape.draw_line(p1, p2) with angle1 = start + i * 9
\* and angle2 = start + (i + 1) * 9
Arc(cx, cy, r, start) ==
    [i \in 1..ArcSegments |->
        [p1 |-> PolarPoint(cx, cy, r, start + (i - 1) * ArcStep),
         p2 |-> PolarPoint(cx, cy, r, start + i * ArcStep)]]

\* the draw_line calls of the rounded border of process_pdf_high_quality, in order
RoundedPath(x0, y0, x1, y1, r) ==
    << [p1 |-> Point(RAdd(x0, r), y0), p2 |-> Point(RSub(x1, r), y0)] >>
    \o Arc(RSub(x1, r), RAdd(y0, r), r, -90)
    \o << [p1 |-> Point(x1, RAdd(y0, r)), p2 |-> Point(x1, RSub(y1, r))] >>
    \o Arc(RSub(x1, r), RSub(y1, r), r, 0)
    \o << [p1 |-> Point(RSub(x1, r), y1), p2 |-> Point(RAdd(x0, r), y1)] >>
    \o Arc(RAdd(x0, r), RSub(y1, r), r, 90)
    \o << [p1 |-> Point(x0, RSub(y1, r)), p2 |-> Point(x0, RAdd(y0, r))] >>
    \o Arc(RAdd(x0, r), RAdd(y0, r), r, 180)

\* a mapping that rasterises 'high' at twice the scale and 'medium' at the dpi
MatrixFactorSwapped(scale_factor, c) ==
    IF c.quality = "medium" THEN RMul(scale_factor, Q(c.dpi, 72))
    ELSE IF c.quality = "original" THEN scale_factor
    ELSE RMul(scale_factor, RInt(2))

\* the factor of fitz.Matrix(f, f) used to rasterize
MatrixFactor(scale_factor, c) ==
    IF c.quality = "high" THEN RMul(scale_factor, Q(c.dpi, 72))
    ELSE IF c.quality = "original" THEN scale_factor
    ELSE RMul(scale_factor, RInt(2))

\* one iteration of the loop of process_pdf_high_quality on source page page_num;
\* path holds the draw_line calls of a rounded border; line_width, color and
\* fill are the arguments of shape.finish
HighQualityPage(page_num, W, H, c) ==
    LET scale_x == ScaleOf(W, c)
        scale_y == ScaleOf(H, c)
        scale_factor == IF c.preserve_ratio THEN RMin(scale_x, scale_y) ELSE scale_x
        x_offset == IF c.preserve_ratio THEN Centred(W, scale_factor, c) ELSE TotalMargin(c)
        y_offset == IF c.preserve_ratio THEN Centred(H, scale_factor, c) ELSE TotalMargin(c)
        b == BorderCornersHQ(W, H, c)
    IN  [src |-> page_num,
         backend |-> "pymupdf",
         width |-> W, height |-> H,
         scale_x |-> scale_factor, scale_y |-> scale_factor,
         translate_x |-> x_offset, translate_y |-> y_offset,
         render |-> IF c.quality = "original" THEN "show_pdf_page" ELSE "insert_image",
         matrix |-> MatrixFactor(scale_factor, c),
         rect |-> IF c.quality = "original"
                  THEN <<x_offset, y_offset,
                         RAdd(x_offset, RMul(RInt(W), scale_factor)),
                         RAdd(y_offset, RMul(RInt(H), scale_factor))>>
                  ELSE <<x_offset, y_offset,
                         RAdd(x_offset, Available(W, c)),
                         RAdd(y_offset, Available(H, c))>>,
         border |-> b,
         outline |-> IF IsRounded(c) THEN "rounded" ELSE "rect",
         dash |-> <<>>,
         radius |-> IF IsRounded(c)
                    THEN ActualRadius(RSub(b[3], b[1]), RSub(b[4], b[2]), c)
                    ELSE RInt(0),
         path |-> IF IsRounded(c)
                  THEN RoundedPath(b[1], b[2], b[3], b[4],
                                   ActualRadius(RSub(b[3], b[1]), RSub(b[4], b[2]), c))
                  ELSE <<>>,
         line_width |-> c.border_width,
         color |-> ColorRGB(border_color),
         fill |-> "None"]

\* one iteration of the loop of process_pdf_standard on source page page_num;
\* rect is the image of the page box under the matrix given to add_transformation;
\* the outline is one c.rect or c.roundRect call (path stays empty), color is
\* the argument of c.setStrokeColorRGB
StandardPage(page_num, W, H, c) ==
    LET scale_x == ScaleOf(W, c)
        scale_y == ScaleOf(H, c)
        scale_factor == RMin(scale_x, scale_y)
        sx == IF c.preserve_ratio THEN scale_factor ELSE scale_x
        sy == IF c.preserve_ratio THEN scale_factor ELSE scale_y
        translate_x == IF c.preserve_ratio THEN Centred(W, scale_factor, c) ELSE TotalMargin(c)
        translate_y == IF c.preserve_ratio THEN Centred(H, scale_factor, c) ELSE TotalMargin(c)
        b == BorderCornersStd(W, H, c)
    IN  [src |-> page_num,
         backend |-> "reportlab",
         width |-> W, height |-> H,
         scale_x |-> sx, scale_y |-> sy,
         translate_x |-> translate_x, translate_y |-> translate_y,
         render |-> "add_transformation",
         matrix |-> RInt(0),
         rect |-> <<translate_x, translate_y,
                    RAdd(translate_x, RMul(RInt(W), sx)),
                    RAdd(translate_y, RMul(RInt(H), sy))>>,
         border |-> b,
         outline |-> IF IsRounded(c) THEN "rounded" ELSE "rect",
         dash |-> IF IsRounded(c) THEN <<>>
                  ELSE IF c.border_style = "dashed" THEN <<6, 3>>
                  ELSE IF c.border_style = "dotted" THEN <<2, 2>>
                  ELSE <<>>,
         radius |-> IF IsRounded(c)
                    THEN ActualRadius(RSub(RInt(W), RMul(RInt(2), RInt(c.outer_margin))),
                                      RSub(RInt(H), RMul(RInt(2), RInt(c.outer_margin))), c)
                    ELSE RInt(0),
         path |-> <<>>,
         line_width |-> c.border_width,
         color |-> border_color,
         fill |-> "0"]

----------------------------------------------------------------------------
(* Text anchors and page numbers *)

\* 'sub in s'
HasSub(s, sub) ==
    \E i \in 0..(Len(s) - Len(sub)) : SubSeq(s, i + 1, i + Len(sub)) = sub

Inside == <<"i", "n", "s", "i", "d", "e">>
Outside == <<"o", "u", "t", "s", "i", "d", "e">>

\* bounds that are inset by the margin alone whatever the location
TextBoundsIgnoringLocation(location, page_width, page_height, outer_margin, margin) ==
    [left |-> RInt(margin), right |-> RInt(page_width - margin),
     top |-> RInt(page_height - margin), bottom |-> RInt(margin)]

\* left_bound, right_bound, top_bound, bottom_bound of calculate_text_position
TextBounds(location, page_width, page_height, outer_margin, margin) ==
    IF location = Inside
    THEN [left |-> RInt(outer_margin + margin),
          right |-> RInt(page_width - outer_margin - margin),
          top |-> RInt(page_height - outer_margin - margin),
          bottom |-> RInt(outer_margin + margin)]
    ELSE [left |-> RInt(margin), right |-> RInt(page_width - margin),
          top |-> RInt(page_height - margin), bottom |-> RInt(margin)]

\* calculate_text_position(...): <<x, y>>, origin at the bottom left
calculate_text_position(position, location, page_width, page_height, outer_margin, text_width, text_height, margin) ==
    LET b == TextBounds(location, page_width, page_height, outer_margin, margin)
        x == IF HasSub(position, <<"l", "e", "f", "t">>) THEN b.left
             ELSE IF HasSub(position, <<"r", "i", "g", "h", "t">>)
                  THEN RSub(b.right, RInt(text_width))
             ELSE RHalf(RInt(page_width - text_width))
        y == IF HasSub(position, <<"t", "o", "p">>) THEN RSub(b.top, RInt(text_height))
             ELSE IF HasSub(position, <<"b", "o", "t", "t", "o", "m">>) THEN b.bottom
             ELSE RHalf(RInt(page_height))
    IN  <<x, y>>

\* str(n) of an integer
RECURSIVE StrNat(_)
StrNat(n) ==
    LET d == <<"0", "1", "2", "3", "4", "5", "6", "7", "8", "9">>[(n % 10) + 1] IN
    IF n < 10 THEN <<d>> ELSE Append(StrNat(n \div 10), d)

Str(n) == IF n < 0 THEN <<"-">> \o StrNat(-n) ELSE StrNat(n)

\* s.replace(old, new): every occurrence of old, found from left to right
\* without overlap, is replaced
RECURSIVE Replace(_, _, _)
Replace(s, old, new) ==
    IF Len(s) < Len(old) THEN s
    ELSE IF SubSeq(s, 1, Len(old)) = old
         THEN new \o Replace(SubSeq(s, Len(old) + 1, Len(s)), old, new)
         ELSE <<Head(s)>> \o Replace(Tail(s), old, new)

PlaceholderN == <<"{", "n", "}">>
PlaceholderTotal == <<"{", "t", "o", "t", "a", "l", "}">>

\* format_page_number(format_string, current_page, total_pages)
format_page_number(format_string, current_page, total_pages) ==
    IF format_string = <<>> THEN <<>>
    ELSE LET result == Replace(Replace(format_string, PlaceholderN, Str(current_page)),
                               PlaceholderTotal, Str(total_pages))
         IN  IF ~HasSub(format_string, PlaceholderN) /\ ~HasSub(result, Str(current_page))
             THEN <<>>
             ELSE result

\* the line main() prints when int(c) raises on a part of a font colour
FontColorError == "error processing PDF: invalid literal for int()"

\* color_parts = font_color.split(','); color = tuple(int(c) / 255.0 for c in color_parts)
\* raised: .split on a value that is no string, or int() on a part, raises
FontColor(color) ==
    IF color.type # "str" THEN [ret |-> <<>>, raised |-> TRUE]
    ELSE LET parts == Split(color.value, ",") IN
         IF \E i \in 1..Len(parts) : ~SignedIntOk(parts[i])
         THEN [ret |-> <<>>, raised |-> TRUE]
         ELSE [ret |-> [i \in 1..Len(parts) |-> Q(SignedIntValue(parts[i]), 255)],
               raised |-> FALSE]

\* a numbering that counts from the source page index
PageNumberBySourceIndex(page_num, total_pages, src, c) ==
    LET pn == c.page_numbers
        number == pn.start_number + src - pn.skip_first
        total == total_pages - pn.skip_first - pn.skip_last
        text == format_page_number(pn.format, number, total)
    IN
    IF pn.enabled /\ page_num > pn.skip_first /\ page_num <= total_pages - pn.skip_last
       /\ text # <<>>
    THEN << [page |-> page_num, src |-> src, number |-> number, total |-> total,
             text |-> text, color |-> FontColor(pn.font_color).ret] >>
    ELSE <<>>

\* a page number whose total counts the skipped pages too
PageNumberOfAllPages(page_num, total_pages, src, c) ==
    LET pn == c.page_numbers
        number == pn.start_number + page_num - 1 - pn.skip_first
        total == total_pages
        text == format_page_number(pn.format, number, total)
    IN
    IF pn.enabled /\ page_num > pn.skip_first /\ page_num <= total_pages - pn.skip_last
       /\ text # <<>>
    THEN << [page |-> page_num, src |-> src, number |-> number, total |-> total,
             text |-> text, color |-> FontColor(pn.font_color).ret] >>
    ELSE <<>>

\* the page number add_page_elements_pymupdf / add_page_elements_reportlab
\* draw on the page at 1-based position page_num of total_pages processed
\* pages; src is the index of the source page
PageNumber(page_num, total_pages, src, c) ==
    LET pn == c.page_numbers
        number == pn.start_number + page_num - 1 - pn.skip_first
        total == total_pages - pn.skip_first - pn.skip_last
        text == format_page_number(pn.format, number, total)
    IN
    IF pn.enabled /\ page_num > pn.skip_first /\ page_num <= total_pages - pn.skip_last
       /\ text # <<>>
    THEN << [page |-> page_num, src |-> src, number |-> number, total |-> total,
             text |-> text, color |-> FontColor(pn.font_color).ret] >>
    ELSE <<>>

\* the title drawn on the page at position page_num (text: the configured
\* title or, where that is empty, the document's)
Title(page_num, src, c) ==
    IF c.title.enabled /\ (~c.title.only_first_page \/ page_num = 1) /\ c.title.text # <<>>
    THEN << [page |-> page_num, src |-> src, text |-> c.title.text,
             color |-> FontColor(c.title.font_color).ret] >>
    ELSE <<>>

\* add_page_elements_pymupdf / add_page_elements_reportlab: the page number,
\* then the title; raised: a font colour could not be converted, and what
\* was drawn before stays drawn
AddPageElements(page_num, total_pages, src, c) ==
    LET n == PageNumber(page_num, total_pages, src, c)
        t == Title(page_num, src, c)
    IN  IF n # <<>> /\ FontColor(c.page_numbers.font_color).raised
        THEN [numbers |-> <<>>, titles |-> <<>>, raised |-> TRUE]
        ELSE IF t # <<>> /\ FontColor(c.title.font_color).raised
        THEN [numbers |-> n, titles |-> <<>>, raised |-> TRUE]
        ELSE [numbers |-> n, titles |-> t, raised |-> FALSE]

----------------------------------------------------------------------------
(* Inputs *)

\* longest input document of a run of main()
MaxPages == 3
\* most comma-separated tokens in a page-range expression
MaxTokens == 3
\* longest document the page-range selector is tried on
MaxTotalPages == 10
\* largest outer margin / inner padding, in steps of 10 points
MaxOuterSteps == 5
MaxInnerSteps == 3

Str1(a) == <<a>>

\* the tokens page-range expressions are built from: single pages, ranges,
\* overlapping and reversed ranges, out-of-range numbers, malformed tokens
RangeTokens ==
    { <<"1", "-", "3">>, <<"7">>, <<"9", "-", "1", "0">>, <<"9", "9">>,
      <<"A", "l", "l">>, <<"a", "l", "l">>, <<>>, <<"1", "-", "2", "-", "3">>,
      <<" ", "2", " ">>, <<"0", "-", "1", "2">>, <<"3", "-">> }

\* ','.join(tokens)
RECURSIVE Join(_)
Join(tokens) ==
    IF tokens = <<>> THEN <<>>
    ELSE IF Len(tokens) = 1 THEN tokens[1]
    ELSE tokens[1] \o <<",">> \o Join(Tail(tokens))

SeqsUpTo(S, n) == UNION { [1..k -> S] : k \in 0..n }

RangeExprs == { Join(ts) : ts \in SeqsUpTo(RangeTokens, MaxTokens) }

\* document lengths the page-range selector is tried on
RangeTotals == 0..MaxTotalPages

DefaultSize == <<200, 300>>

\* config.yaml defaults (load_config), margins already in points
DefaultCfg ==
    [input |-> "ok", yes |-> TRUE, confirm |-> TRUE, pymupdf |-> TRUE,
     quality |-> "original", dpi |-> 300, preserve_ratio |-> TRUE,
     outer_margin |-> 36, inner_padding |-> 18,
     border_style |-> "rounded", corner_radius |-> 10, border_width |-> 1,
     border_color |-> [type |-> "str", value |-> <<"0", ",", "0", ",", "0">>],
     title |-> [enabled |-> FALSE, text |-> <<>>, only_first_page |-> TRUE,
                font_color |-> [type |-> "str", value |-> <<"0", ",", "0", ",", "0">>]],
     page_numbers |-> [enabled |-> FALSE, start_number |-> 1,
                       format |-> <<"P", "a", "g", "e", " ", "{", "n", "}", " ", "o", "f",
                                    " ", "{", "t", "o", "t", "a", "l", "}">>,
                       font_color |-> [type |-> "str",
                                       value |-> <<"0", ",", "0", ",", "0">>],
                       skip_first |-> 0, skip_last |-> 0]]

Qualities == {"original", "high", "medium", "standard"}
Styles == {"solid", "dashed", "dotted", "rounded"}

----------------------------------------------------------------------------
(* The page-range selector on its own *)

InitRange ==
    /\ pc = "call_parse"
    /\ page_range_str \in RangeExprs
    /\ \E n \in RangeTotals : doc = [i \in 1..n |-> DefaultSize]
    /\ cfg = DefaultCfg
    /\ page_indices = <<>>
    /\ warnings = 0
    /\ idx = 0
    /\ output_doc = <<>>
    /\ file_written = FALSE
    /\ exit_status = -1
    /\ report = "none"
    /\ border_color = <<>>
    /\ color_rgb = <<>>
    /\ text_pos = <<>>
    /\ texts = <<>>
    /\ stage = <<>>
    /\ confirm_calls = <<>>
    /\ page_text = <<>>
    /\ titles = <<>>

\* page_indices = parse_page_range(page_range_str, total_pages)
CallParsePageRange ==
    /\ pc = "call_parse"
    /\ LET r == parse_page_range(page_range_str, Len(doc)) IN
       /\ pc' = IF r.raised THEN "parse_raised" ELSE "parse_returned"
       /\ page_indices' = r.ret
       /\ stage' = [k \in 1..Len(r.ret) |-> "Selected"]
       /\ warnings' = warnings + r.warn
    /\ UNCHANGED <<page_range_str, doc, cfg, idx, output_doc, file_written, exit_status,
                   report>>
    /\ UNCHANGED <<border_color, color_rgb, text_pos, texts>>
    /\ UNCHANGED <<confirm_calls, page_text>>
    /\ UNCHANGED titles

NextRange == CallParsePageRange

SpecRange == InitRange /\ [][NextRange]_vars

----------------------------------------------------------------------------
(* process_pdf_high_quality and process_pdf_standard: one action per loop  *)
(* iteration, one for the save after the loop.                             *)

\* for idx, page_num in enumerate(page_indices): ... output_doc.new_page(...);
\* output_doc holds the pages whose iteration has ended: an exception out of
\* add_page_elements_pymupdf ends the call before the page is complete
StepHighQuality ==
    /\ pc = "high_quality"
    /\ idx < Len(page_indices)
    /\ LET page_num == page_indices[idx + 1]
           size == doc[page_num + 1]
           e == AddPageElements(idx + 1, Len(page_indices), page_num, cfg)
       IN  /\ texts' = texts \o e.numbers
           /\ titles' = titles \o e.titles
           /\ IF e.raised
              THEN /\ UNCHANGED output_doc
                   /\ pc' = "exit" /\ exit_status' = 1
                   /\ report' = FontColorError
                   /\ UNCHANGED <<stage, idx>>
              ELSE /\ output_doc' = Append(output_doc, HighQualityPage(page_num, size[1], size[2], cfg))
                   /\ stage' = [stage EXCEPT ![idx + 1] = "Committed"]
                   /\ idx' = idx + 1
                   /\ UNCHANGED <<pc, exit_status, report>>
    /\ UNCHANGED <<page_range_str, doc, cfg, page_indices, warnings, file_written>>
    /\ UNCHANGED <<border_color, color_rgb, text_pos>>
    /\ UNCHANGED <<confirm_calls, page_text>>

\* output_doc.save(output_path, ...)
SaveHighQuality ==
    /\ pc = "high_quality"
    /\ idx = Len(page_indices)
    /\ file_written' = TRUE
    /\ report' = "saved"
    /\ pc' = "returned"
    /\ UNCHANGED <<page_range_str, doc, cfg, page_indices, warnings, idx,
                   output_doc, exit_status>>
    /\ UNCHANGED <<border_color, color_rgb, text_pos, texts, stage>>
    /\ UNCHANGED <<confirm_calls, page_text>>
    /\ UNCHANGED titles

\* a loop that walks over the first len(page_indices) pages of the document
StepStandardByPosition ==
    /\ pc = "standard"
    /\ idx < Len(page_indices)
    /\ LET page_num == idx
           size == doc[page_num + 1]
           e == AddPageElements(idx + 1, Len(page_indices), page_num, cfg)
       IN  /\ texts' = texts \o e.numbers
           /\ titles' = titles \o e.titles
           /\ IF e.raised
              THEN /\ UNCHANGED output_doc
                   /\ pc' = "exit" /\ exit_status' = 1
                   /\ report' = FontColorError
                   /\ UNCHANGED <<stage, idx>>
              ELSE /\ output_doc' = Append(output_doc, StandardPage(page_num, size[1], size[2], cfg))
                   /\ stage' = [stage EXCEPT ![idx + 1] = "Committed"]
                   /\ idx' = idx + 1
                   /\ UNCHANGED <<pc, exit_status, report>>
    /\ UNCHANGED <<page_range_str, doc, cfg, page_indices, warnings, file_written>>
    /\ UNCHANGED <<border_color, color_rgb, text_pos>>
    /\ UNCHANGED <<confirm_calls, page_text>>

\* for idx, page_num in enumerate(page_indices): ... writer.add_blank_page(...)
StepStandard ==
    /\ pc = "standard"
    /\ idx < Len(page_indices)
    /\ LET page_num == page_indices[idx + 1]
           size == doc[page_num + 1]
           e == AddPageElements(idx + 1, Len(page_indices), page_num, cfg)
       IN  /\ texts' = texts \o e.numbers
           /\ titles' = titles \o e.titles
           /\ IF e.raised
              THEN /\ UNCHANGED output_doc
                   /\ pc' = "exit" /\ exit_status' = 1
                   /\ report' = FontColorError
                   /\ UNCHANGED <<stage, idx>>
              ELSE /\ output_doc' = Append(output_doc, StandardPage(page_num, size[1], size[2], cfg))
                   /\ stage' = [stage EXCEPT ![idx + 1] = "Committed"]
                   /\ idx' = idx + 1
                   /\ UNCHANGED <<pc, exit_status, report>>
    /\ UNCHANGED <<page_range_str, doc, cfg, page_indices, warnings, file_written>>
    /\ UNCHANGED <<border_color, color_rgb, text_pos>>
    /\ UNCHANGED <<confirm_calls, page_text>>

\* with open(output_path, 'wb') as output_file: writer.write(output_file)
SaveStandard ==
    /\ pc = "standard"
    /\ idx = Len(page_indices)
    /\ file_written' = TRUE
    /\ report' = "saved"
    /\ pc' = "returned"
    /\ UNCHANGED <<page_range_str, doc, cfg, page_indices, warnings, idx,
                   output_doc, exit_status>>
    /\ UNCHANGED <<border_color, color_rgb, text_pos, texts, stage>>
    /\ UNCHANGED <<confirm_calls, page_text>>
    /\ UNCHANGED titles

NextGeom == StepHighQuality \/ SaveHighQuality \/ StepStandard \/ SaveStandard

\* page sizes: square, portrait, landscape; large enough for the radius cap
GeomSizes == {<<100, 100>>, <<100, 200>>, <<200, 100>>, <<200, 200>>}

\* border style with corner radius (the radius matters for 'rounded' only)
GeomBorders ==
    {<<"solid", 0>>, <<"dashed", 0>>, <<"dotted", 0>>,
     <<"rounded", 0>>, <<"rounded", 5>>, <<"rounded", 45>>, <<"rounded", 1000>>}

\* --border-width values
GeomWidths == {1, 3}

\* the parameters process_pdf_* is called with
GeomCfgs ==
    { [DefaultCfg EXCEPT !.quality = q, !.preserve_ratio = pr,
                         !.outer_margin = 10 * o, !.inner_padding = 10 * i,
                         !.border_style = b[1], !.corner_radius = b[2],
                         !.border_width = w] :
        q \in Qualities, pr \in BOOLEAN, o \in 0..MaxOuterSteps,
        i \in 0..MaxInnerSteps, b \in GeomBorders, w \in GeomWidths }

\* a call of process_pdf_high_quality or process_pdf_standard on one page
InitGeom ==
    /\ pc \in {"high_quality", "standard"}
    /\ cfg \in GeomCfgs
    /\ (pc = "standard") = (cfg.quality = "standard")
    /\ page_range_str = <<"a", "l", "l">>
    /\ \E size \in GeomSizes : doc = <<size>>
    /\ page_indices = <<0>>
    /\ warnings = 0
    /\ idx = 0
    /\ output_doc = <<>>
    /\ file_written = FALSE
    /\ exit_status = -1
    /\ report = "none"
    /\ border_color = <<>>
    /\ color_rgb = <<>>
    /\ text_pos = <<>>
    /\ texts = <<>>
    /\ stage = <<"Selected">>
    /\ confirm_calls = <<>>
    /\ page_text = <<>>
    /\ titles = <<>>

SpecGeom == InitGeom /\ [][NextGeom]_vars

----------------------------------------------------------------------------
(* parse_color called on its own, followed by display_settings *)

\* most comma-separated parts of a colour string
MaxColorParts == 4

\* the parts colour strings are built from: components in and out of 0..255,
\* padded and signed integers, and parts that are not integers
ColorParts ==
    { <<"0">>, <<"2", "5", "5">>, <<"1", "2", "8">>, <<"7">>, <<" ", "6", "4", " ">>,
      <<"2", "5", "6">>, <<"3", "0", "0">>, <<"-", "1">>, <<"+", "5">>,
      <<>>, <<"x">>, <<"1", ".", "5">>, <<"f", "f">> }

\* colour strings with too few and too many parts
ShortParts == { <<"0">>, <<"2", "5", "5">> }

\* colour names and hex strings
NamedAndHex ==
    { <<"r", "e", "d">>, <<"b", "l", "a", "c", "k">>, <<"w", "h", "i", "t", "e">>,
      <<"#", "f", "f", "0", "0", "0", "0">>, <<"#", "0", "0", "0", "0", "f", "f">>,
      <<"#", "f", "f", "f", "f", "f", "f">> }

ColorStrings ==
    { Join(ps) : ps \in [1..3 -> ColorParts] }
    \cup { Join(ps) : ps \in UNION { [1..k -> ShortParts] : k \in 1..MaxColorParts } }
    \cup NamedAndHex

\* values of border.color / --border-color: strings, and a YAML scalar that
\* is not a string
ColorInputs ==
    { [type |-> "str", value |-> v] : v \in ColorStrings }
    \cup { [type |-> "int", value |-> <<>>] }

InitColor ==
    /\ pc = "call_parse_color"
    /\ cfg \in { [DefaultCfg EXCEPT !.border_color = c] : c \in ColorInputs }
    /\ page_range_str = <<"a", "l", "l">>
    /\ doc = <<DefaultSize>>
    /\ page_indices = <<>>
    /\ warnings = 0
    /\ idx = 0
    /\ output_doc = <<>>
    /\ file_written = FALSE
    /\ exit_status = -1
    /\ report = "none"
    /\ border_color = <<>>
    /\ color_rgb = <<>>
    /\ text_pos = <<>>
    /\ texts = <<>>
    /\ stage = <<>>
    /\ confirm_calls = <<>>
    /\ page_text = <<>>
    /\ titles = <<>>

\* border_color = parse_color(args.border_color)
CallParseColor ==
    /\ pc = "call_parse_color"
    /\ LET r == parse_color(cfg.border_color) IN
       /\ pc' = IF r.raised THEN "color_raised" ELSE "color_parsed"
       /\ border_color' = r.ret
       /\ warnings' = warnings + r.warn
    /\ UNCHANGED <<page_range_str, doc, cfg, page_indices, idx, output_doc,
                   file_written, exit_status, report, color_rgb, text_pos,
                   texts, stage>>
    /\ UNCHANGED <<confirm_calls, page_text>>
    /\ UNCHANGED titles

\* display_settings: color_rgb = tuple(int(c * 255) for c in border_color)
DisplaySettings ==
    /\ pc = "color_parsed"
    /\ color_rgb' = ColorRGB(border_color)
    /\ pc' = "color_shown"
    /\ UNCHANGED <<page_range_str, doc, cfg, page_indices, warnings, idx,
                   output_doc, file_written, exit_status, report,
                   border_color, text_pos, texts, stage>>
    /\ UNCHANGED <<confirm_calls, page_text>>
    /\ UNCHANGED titles

NextColor == CallParseColor \/ DisplaySettings

SpecColor == InitColor /\ [][NextColor]_vars

----------------------------------------------------------------------------
(* calculate_text_position called on its own *)

Vertical == { <<"t", "o", "p">>, <<"b", "o", "t", "t", "o", "m">>,
              <<"c", "e", "n", "t", "e", "r">> }
Horizontal == { <<"l", "e", "f", "t">>, <<"r", "i", "g", "h", "t">>,
                <<"c", "e", "n", "t", "e", "r">> }

\* the nine position names, 'top-left' ... 'center-center'
Positions == { v \o <<"-">> \o h : v \in Vertical, h \in Horizontal }

Locations == { Inside, Outside }

\* page sizes, outer margins, text extents and text margins of the calls
TextPageSizes == { <<200, 300>>, <<300, 200>> }
TextOuterMargins == { 0, 36 }
TextExtents == { <<40, 10>>, <<25, 12>> }
TextMargins == { 5, 20 }

InitText ==
    /\ pc = "call_text_position"
    /\ cfg = DefaultCfg
    /\ page_range_str = <<"a", "l", "l">>
    /\ doc = <<DefaultSize>>
    /\ page_indices = <<>>
    /\ warnings = 0
    /\ idx = 0
    /\ output_doc = <<>>
    /\ file_written = FALSE
    /\ exit_status = -1
    /\ report = "none"
    /\ border_color = <<>>
    /\ color_rgb = <<>>
    /\ text_pos = <<>>
    /\ texts = <<>>
    /\ stage = <<>>
    /\ confirm_calls = <<>>
    /\ page_text = <<>>
    /\ titles = <<>>

\* x, y = calculate_text_position(position, location, page_width, page_height,
\*                                outer_margin, text_width, text_height, margin)
CallCalculateTextPosition ==
    /\ pc = "call_text_position"
    /\ \E position \in Positions, location \in Locations, size \in TextPageSizes,
          outer_margin \in TextOuterMargins, extent \in TextExtents,
          margin \in TextMargins :
          LET r == calculate_text_position(position, location, size[1], size[2],
                                           outer_margin, extent[1], extent[2], margin)
          IN  text_pos' = [position |-> position, location |-> location,
                           page_width |-> size[1], page_height |-> size[2],
                           outer_margin |-> outer_margin,
                           text_width |-> extent[1], text_height |-> extent[2],
                           margin |-> margin, x |-> r[1], y |-> r[2]]
    /\ pc' = "text_position_returned"
    /\ UNCHANGED <<page_range_str, doc, cfg, page_indices, warnings, idx,
                   output_doc, file_written, exit_status, report,
                   border_color, color_rgb, texts, stage>>
    /\ UNCHANGED <<confirm_calls, page_text>>
    /\ UNCHANGED titles

NextText == CallCalculateTextPosition

SpecText == InitText /\ [][NextText]_vars

----------------------------------------------------------------------------
(* format_page_number called on its own *)

\* most pieces of a format string
MaxFormatPieces == 3

\* pieces format strings are made of: the placeholders, halves of them, text
FormatPieces ==
    { PlaceholderN, PlaceholderTotal, <<"{">>, <<"n", "}">>, <<"P", " ">>, <<"1">>, <<"2">> }

\* the pieces written one after the other
RECURSIVE Concat(_)
Concat(pieces) == IF pieces = <<>> THEN <<>> ELSE Head(pieces) \o Concat(Tail(pieces))

\* the format strings format_page_number is called with
FormatStrings ==
    { Concat(t) : t \in UNION { [1..k -> FormatPieces] : k \in 0..MaxFormatPieces } }

\* current page numbers and totals it is called with
FormatNumbers == {1, 2, 12}

InitFormat ==
    /\ pc = "call_format_page_number"
    /\ cfg = DefaultCfg
    /\ page_range_str = <<"a", "l", "l">>
    /\ doc = <<DefaultSize>>
    /\ page_indices = <<>>
    /\ warnings = 0
    /\ idx = 0
    /\ output_doc = <<>>
    /\ file_written = FALSE
    /\ exit_status = -1
    /\ report = "none"
    /\ border_color = <<>>
    /\ color_rgb = <<>>
    /\ text_pos = <<>>
    /\ texts = <<>>
    /\ stage = <<>>
    /\ confirm_calls = <<>>
    /\ page_text = <<>>
    /\ titles = <<>>

\* text = format_page_number(format_string, current_page, total_pages)
CallFormatPageNumber ==
    /\ pc = "call_format_page_number"
    /\ \E f \in FormatStrings, n \in FormatNumbers, t \in FormatNumbers :
          page_text' = [format_string |-> f, current_page |-> n, total_pages |-> t,
                        result |-> format_page_number(f, n, t)]
    /\ pc' = "format_returned"
    /\ UNCHANGED <<page_range_str, doc, cfg, page_indices, warnings, idx,
                   output_doc, file_written, exit_status, report>>
    /\ UNCHANGED <<border_color, color_rgb, text_pos, texts, stage, confirm_calls>>
    /\ UNCHANGED titles

NextFormat == CallFormatPageNumber

SpecFormat == InitFormat /\ [][NextFormat]_vars

----------------------------------------------------------------------------
(* The page loops of process_pdf_high_quality and process_pdf_standard,    *)
(* statement group by statement group.  stage[k] is the stage the k-th     *)
(* selected page has reached; the title is disabled (load_config default). *)

\* the source page of the current iteration and its size
CurPage == page_indices[idx + 1]
CurSize == doc[CurPage + 1]

\* scale_x, scale_y, scale_factor, mat
HQComputeTransform ==
    /\ pc = "high_quality"
    /\ idx < Len(page_indices)
    /\ stage' = [stage EXCEPT ![idx + 1] = "TransformComputed"]
    /\ pc' = "hq_place"
    /\ UNCHANGED <<page_range_str, doc, cfg, page_indices, warnings,
                   file_written, exit_status, report, border_color,
                   color_rgb, text_pos, idx, output_doc, texts>>
    /\ UNCHANGED <<confirm_calls, page_text>>
    /\ UNCHANGED titles

\* new_page = output_doc.new_page(...); x_offset, y_offset;
\* new_page.show_pdf_page(...) or page.get_pixmap(...), new_page.insert_image(...)
HQPlaceContent ==
    /\ pc = "hq_place"
    /\ output_doc' = Append(output_doc,
                            [HighQualityPage(CurPage, CurSize[1], CurSize[2], cfg)
                                EXCEPT !.border = <<>>, !.outline = "none",
                                       !.radius = RInt(0), !.path = <<>>])
    /\ stage' = [stage EXCEPT ![idx + 1] = "ContentPlaced"]
    /\ pc' = "hq_border"
    /\ UNCHANGED <<page_range_str, doc, cfg, page_indices, warnings,
                   file_written, exit_status, report, border_color,
                   color_rgb, text_pos, idx, texts>>
    /\ UNCHANGED <<confirm_calls, page_text>>
    /\ UNCHANGED titles

\* shape = new_page.new_shape(); ...; shape.finish(...); shape.commit()
HQDrawBorder ==
    /\ pc = "hq_border"
    /\ output_doc' = [output_doc EXCEPT ![Len(output_doc)] =
                          HighQualityPage(CurPage, CurSize[1], CurSize[2], cfg)]
    /\ stage' = [stage EXCEPT ![idx + 1] = "BorderDrawn"]
    /\ pc' = "hq_text"
    /\ UNCHANGED <<page_range_str, doc, cfg, page_indices, warnings,
                   file_written, exit_status, report, border_color,
                   color_rgb, text_pos, idx, texts>>
    /\ UNCHANGED <<confirm_calls, page_text>>
    /\ UNCHANGED titles

\* if config: add_page_elements_pymupdf(new_page, idx + 1, len(page_indices), ...);
\* an exception leaves process_pdf_high_quality and reaches main()'s handler
HQAddPageElements ==
    /\ pc = "hq_text"
    /\ LET e == AddPageElements(idx + 1, Len(page_indices), CurPage, cfg) IN
       /\ texts' = texts \o e.numbers
       /\ titles' = titles \o e.titles
       /\ stage' = IF e.numbers # <<>> \/ e.titles # <<>>
                   THEN [stage EXCEPT ![idx + 1] = "TextPlaced"] ELSE stage
       /\ IF e.raised
          THEN pc' = "exit" /\ exit_status' = 1 /\ report' = FontColorError
          ELSE pc' = "hq_end" /\ UNCHANGED <<exit_status, report>>
    /\ UNCHANGED <<page_range_str, doc, cfg, page_indices, warnings,
                   file_written, border_color,
                   color_rgb, text_pos, idx, output_doc>>
    /\ UNCHANGED <<confirm_calls, page_text>>

\* the end of the loop body: the page is complete in output_doc
HQEndIteration ==
    /\ pc = "hq_end"
    /\ stage' = [stage EXCEPT ![idx + 1] = "Committed"]
    /\ idx' = idx + 1
    /\ pc' = "high_quality"
    /\ UNCHANGED <<page_range_str, doc, cfg, page_indices, warnings,
                   file_written, exit_status, report, border_color,
                   color_rgb, text_pos, output_doc, texts>>
    /\ UNCHANGED <<confirm_calls, page_text>>
    /\ UNCHANGED titles

\* scale_x, scale_y, scale_factor, translate_x, translate_y
StdComputeTransform ==
    /\ pc = "standard"
    /\ idx < Len(page_indices)
    /\ stage' = [stage EXCEPT ![idx + 1] = "TransformComputed"]
    /\ pc' = "std_transform"
    /\ UNCHANGED <<page_range_str, doc, cfg, page_indices, warnings,
                   file_written, exit_status, report, border_color,
                   color_rgb, text_pos, idx, output_doc, texts>>
    /\ UNCHANGED <<confirm_calls, page_text>>
    /\ UNCHANGED titles

\* a loop body that goes on to the border without transforming the content
StdAddTransformationLeftOut ==
    /\ pc = "std_transform"
    /\ pc' = "std_border"
    /\ UNCHANGED <<page_range_str, doc, cfg, page_indices, warnings,
                   file_written, exit_status, report, border_color,
                   color_rgb, text_pos, idx, output_doc, texts, stage>>
    /\ UNCHANGED <<confirm_calls, page_text>>
    /\ UNCHANGED titles

\* page.add_transformation(Transformation().scale(...).translate(...))
StdAddTransformation ==
    /\ pc = "std_transform"
    /\ stage' = [stage EXCEPT ![idx + 1] = "ContentPlaced"]
    /\ pc' = "std_border"
    /\ UNCHANGED <<page_range_str, doc, cfg, page_indices, warnings,
                   file_written, exit_status, report, border_color,
                   color_rgb, text_pos, idx, output_doc, texts>>
    /\ UNCHANGED <<confirm_calls, page_text>>
    /\ UNCHANGED titles

\* c = canvas.Canvas(packet, ...); c.setStrokeColorRGB(...); c.rect / c.roundRect
StdDrawBorder ==
    /\ pc = "std_border"
    /\ stage' = [stage EXCEPT ![idx + 1] = "BorderDrawn"]
    /\ pc' = "std_text"
    /\ UNCHANGED <<page_range_str, doc, cfg, page_indices, warnings,
                   file_written, exit_status, report, border_color,
                   color_rgb, text_pos, idx, output_doc, texts>>
    /\ UNCHANGED <<confirm_calls, page_text>>
    /\ UNCHANGED titles

\* if config: add_page_elements_reportlab(c, idx + 1, len(page_indices), ...);
\* an exception leaves process_pdf_standard and reaches main()'s handler
StdAddPageElements ==
    /\ pc = "std_text"
    /\ LET e == AddPageElements(idx + 1, Len(page_indices), CurPage, cfg) IN
       /\ texts' = texts \o e.numbers
       /\ titles' = titles \o e.titles
       /\ stage' = IF e.numbers # <<>> \/ e.titles # <<>>
                   THEN [stage EXCEPT ![idx + 1] = "TextPlaced"] ELSE stage
       /\ IF e.raised
          THEN pc' = "exit" /\ exit_status' = 1 /\ report' = FontColorError
          ELSE pc' = "std_merge" /\ UNCHANGED <<exit_status, report>>
    /\ UNCHANGED <<page_range_str, doc, cfg, page_indices, warnings,
                   file_written, border_color,
                   color_rgb, text_pos, idx, output_doc>>
    /\ UNCHANGED <<confirm_calls, page_text>>

\* c.save(); new_page = writer.add_blank_page(...);
\* new_page.merge_page(page); new_page.merge_page(border_page)
StdMergePage ==
    /\ pc = "std_merge"
    /\ output_doc' = Append(output_doc,
                            StandardPage(CurPage, CurSize[1], CurSize[2], cfg))
    /\ stage' = [stage EXCEPT ![idx + 1] = "Committed"]
    /\ idx' = idx + 1
    /\ pc' = "standard"
    /\ UNCHANGED <<page_range_str, doc, cfg, page_indices, warnings,
                   file_written, exit_status, report, border_color,
                   color_rgb, text_pos, texts>>
    /\ UNCHANGED <<confirm_calls, page_text>>
    /\ UNCHANGED titles

NextStages ==
    \/ HQComputeTransform
    \/ HQPlaceContent
    \/ HQDrawBorder
    \/ HQAddPageElements
    \/ HQEndIteration
    \/ SaveHighQuality
    \/ StdComputeTransform
    \/ StdAddTransformation
    \/ StdDrawBorder
    \/ StdAddPageElements
    \/ StdMergePage
    \/ SaveStandard

\* page sizes of the documents of the calls
StageSizes == { <<200, 300>>, <<300, 200>> }

\* quality modes and page-number settings of the calls
StageCfgs ==
    { [DefaultCfg EXCEPT !.quality = q,
                         !.page_numbers.enabled = e,
                         !.page_numbers.skip_first = f] :
        q \in Qualities, e \in BOOLEAN, f \in 0..1 }

\* a call of process_pdf_high_quality or process_pdf_standard with a
\* non-empty ascending selection of the pages of a document
InitStages ==
    /\ pc \in {"high_quality", "standard"}
    /\ cfg \in StageCfgs
    /\ (pc = "standard") = (cfg.quality = "standard")
    /\ page_range_str = <<"a", "l", "l">>
    /\ doc \in SeqsUpTo(StageSizes, MaxPages)
    /\ \E S \in (SUBSET (0..(Len(doc) - 1))) \ {{}} : page_indices = SortedList(S)
    /\ warnings = 0
    /\ idx = 0
    /\ output_doc = <<>>
    /\ file_written = FALSE
    /\ exit_status = -1
    /\ report = "none"
    /\ border_color = Black
    /\ color_rgb = <<0, 0, 0>>
    /\ text_pos = <<>>
    /\ texts = <<>>
    /\ stage = [k \in 1..Len(page_indices) |-> "Selected"]
    /\ confirm_calls = <<>>
    /\ page_text = <<>>
    /\ titles = <<>>

SpecStages == InitStages /\ [][NextStages]_vars

----------------------------------------------------------------------------
(* main() *)

\* print(msg); sys.exit(status)
Exit(status, msg) ==
    /\ pc' = "exit"
    /\ exit_status' = status
    /\ report' = msg

\* if not os.path.exists(args.input_pdf): print error; sys.exit(1)
MainCheckInput ==
    /\ pc = "main"
    /\ IF cfg.input = "missing" THEN Exit(1, "input file not found")
       ELSE pc' = "read" /\ UNCHANGED <<exit_status, report>>
    /\ UNCHANGED <<page_range_str, doc, cfg, page_indices, warnings, idx,
                   output_doc, file_written>>
    /\ UNCHANGED <<border_color, color_rgb, text_pos, texts, stage>>
    /\ UNCHANGED <<confirm_calls, page_text>>
    /\ UNCHANGED titles

\* mutant of MainParsePages: an empty selection is passed on
MainParsePagesNoEmptyCheck ==
    /\ pc = "read"
    /\ cfg.input = "ok"
    /\ LET r == parse_page_range(page_range_str, Len(doc))
           col == parse_color(cfg.border_color)
       IN
       /\ ~r.raised
       /\ page_indices' = r.ret
       /\ stage' = [k \in 1..Len(r.ret) |-> "Selected"]
       /\ warnings' = warnings + r.warn + col.warn
       /\ border_color' = col.ret
       /\ color_rgb' = ColorRGB(col.ret)
       /\ pc' = "confirm"
    /\ UNCHANGED <<page_range_str, doc, cfg, idx, output_doc, file_written, exit_status,
                   report>>
    /\ UNCHANGED <<text_pos, texts>>
    /\ UNCHANGED <<confirm_calls, page_text>>
    /\ UNCHANGED titles

\* try: reader = PdfReader(...); total_pages = len(reader.pages)
\*      page_indices = parse_page_range(args.pages, total_pages)
\*      if not page_indices: print error; sys.exit(1)
\* except Exception: print error; sys.exit(1)
\* border_color = parse_color(args.border_color); display_settings(...)
MainParsePages ==
    /\ pc = "read"
    /\ IF cfg.input = "unreadable"
       THEN /\ Exit(1, "error reading PDF")
            /\ UNCHANGED <<page_indices, warnings, border_color, color_rgb, stage>>
       ELSE LET r == parse_page_range(page_range_str, Len(doc))
                col == parse_color(cfg.border_color)
            IN
            IF r.raised
            THEN /\ Exit(1, "error reading PDF")
                 /\ warnings' = warnings + r.warn
                 /\ UNCHANGED <<page_indices, border_color, color_rgb, stage>>
            ELSE /\ page_indices' = r.ret
                 /\ stage' = [k \in 1..Len(r.ret) |-> "Selected"]
                 /\ IF r.ret = <<>>
                    THEN /\ Exit(1, "no valid pages")
                         /\ warnings' = warnings + r.warn
                         /\ UNCHANGED <<border_color, color_rgb>>
                    ELSE /\ pc' = "confirm"
                         /\ warnings' = warnings + r.warn + col.warn
                         /\ border_color' = col.ret
                         /\ color_rgb' = ColorRGB(col.ret)
                         /\ UNCHANGED <<exit_status, report>>
    /\ UNCHANGED <<page_range_str, doc, cfg, idx, output_doc, file_written>>
    /\ UNCHANGED <<text_pos, texts>>
    /\ UNCHANGED <<confirm_calls, page_text>>
    /\ UNCHANGED titles

\* if not args.yes and config['processing']['confirm']: the prompt is shown
Prompted == ~cfg.yes /\ cfg.confirm

\* the prompt is skipped
MainConfirmSkipped ==
    /\ pc = "confirm"
    /\ ~Prompted
    /\ pc' = "dispatch"
    /\ UNCHANGED <<page_range_str, doc, cfg, page_indices, warnings, idx,
                   output_doc, file_written, exit_status,
                   report>>
    /\ UNCHANGED <<border_color, color_rgb, text_pos, texts, stage>>
    /\ UNCHANGED <<confirm_calls, page_text>>
    /\ UNCHANGED titles

\* confirm_proceed() returns True: ENTER was pressed (or, where the terminal
\* cannot be read key by key, the fallback input() returned)
MainConfirmAccepted ==
    /\ pc = "confirm"
    /\ Prompted
    /\ pc' = "dispatch"
    /\ UNCHANGED <<page_range_str, doc, cfg, page_indices, warnings, idx,
                   output_doc, file_written, exit_status,
                   report>>
    /\ UNCHANGED <<border_color, color_rgb, text_pos, texts, stage>>
    /\ confirm_calls' = Append(confirm_calls, TRUE)
    /\ UNCHANGED page_text
    /\ UNCHANGED titles

\* a main() that goes on to the processing although confirm_proceed() returned False
MainConfirmDeclinedProceeds ==
    /\ pc = "confirm"
    /\ Prompted
    /\ pc' = "dispatch"
    /\ confirm_calls' = Append(confirm_calls, FALSE)
    /\ UNCHANGED <<page_range_str, doc, cfg, page_indices, warnings, idx,
                   output_doc, file_written, exit_status, report>>
    /\ UNCHANGED <<border_color, color_rgb, text_pos, texts, stage, page_text>>
    /\ UNCHANGED titles

\* confirm_proceed() returns False (a key other than ENTER): sys.exit(0)
MainConfirmDeclined ==
    /\ pc = "confirm"
    /\ Prompted
    /\ Exit(0, "cancelled")
    /\ UNCHANGED <<page_range_str, doc, cfg, page_indices, warnings, idx,
                   output_doc, file_written>>
    /\ UNCHANGED <<border_color, color_rgb, text_pos, texts, stage>>
    /\ confirm_calls' = Append(confirm_calls, FALSE)
    /\ UNCHANGED page_text
    /\ UNCHANGED titles
    /\ UNCHANGED titles

\* confirm_proceed() catches KeyboardInterrupt and returns False: sys.exit(0)
MainConfirmCtrlC ==
    /\ pc = "confirm"
    /\ Prompted
    /\ Exit(0, "cancelled (Ctrl+C)")
    /\ UNCHANGED <<page_range_str, doc, cfg, page_indices, warnings, idx,
                   output_doc, file_written>>
    /\ UNCHANGED <<border_color, color_rgb, text_pos, texts, stage>>
    /\ confirm_calls' = Append(confirm_calls, FALSE)
    /\ UNCHANGED page_text
    /\ UNCHANGED titles
    /\ UNCHANGED titles

\* a dispatch that falls back to the standard path without printing anything
MainDispatchSilent ==
    /\ pc = "dispatch"
    /\ pc' = IF cfg.quality # "standard" /\ cfg.pymupdf
             THEN "high_quality" ELSE "standard"
    /\ UNCHANGED <<page_range_str, doc, cfg, page_indices, warnings, idx,
                   output_doc, file_written, exit_status,
                   report>>
    /\ UNCHANGED <<border_color, color_rgb, text_pos, texts, stage>>
    /\ UNCHANGED <<confirm_calls, page_text>>
    /\ UNCHANGED titles

\* if args.quality != 'standard' and PYMUPDF_AVAILABLE: process_pdf_high_quality(...)
\* else: (warning when PyMuPDF was asked for and is missing) process_pdf_standard(...)
MainDispatch ==
    /\ pc = "dispatch"
    /\ IF cfg.quality # "standard" /\ cfg.pymupdf
       THEN pc' = "high_quality" /\ UNCHANGED warnings
       ELSE /\ pc' = "standard"
            /\ warnings' = IF cfg.quality # "standard" /\ ~cfg.pymupdf
                           THEN warnings + 1 ELSE warnings
    /\ UNCHANGED <<page_range_str, doc, cfg, page_indices, idx, output_doc,
                   file_written, exit_status,
                   report>>
    /\ UNCHANGED <<border_color, color_rgb, text_pos, texts, stage>>
    /\ UNCHANGED <<confirm_calls, page_text>>
    /\ UNCHANGED titles

\* a handler that drops the failing page and goes on with the next one
MainProcessingErrorSkipsPage ==
    /\ pc \in {"high_quality", "standard"}
    /\ idx < Len(page_indices)
    /\ idx' = idx + 1
    /\ UNCHANGED <<pc, page_range_str, doc, cfg, page_indices, warnings,
                   output_doc, file_written, exit_status, report>>
    /\ UNCHANGED <<border_color, color_rgb, text_pos, texts, stage>>
    /\ UNCHANGED <<confirm_calls, page_text>>
    /\ UNCHANGED titles

\* except Exception: print error, traceback; sys.exit(1)
\* (a library call of the current loop iteration raises)
MainProcessingError ==
    /\ pc \in {"high_quality", "standard"}
    /\ idx < Len(page_indices)
    /\ Exit(1, "error processing PDF")
    /\ UNCHANGED <<page_range_str, doc, cfg, page_indices, warnings, idx,
                   output_doc, file_written>>
    /\ UNCHANGED <<border_color, color_rgb, text_pos, texts, stage>>
    /\ UNCHANGED <<confirm_calls, page_text>>
    /\ UNCHANGED titles

\* except KeyboardInterrupt: print; sys.exit(1)
MainInterrupted ==
    /\ pc \in {"high_quality", "standard"}
    /\ idx < Len(page_indices)
    /\ Exit(1, "interrupted by user")
    /\ UNCHANGED <<page_range_str, doc, cfg, page_indices, warnings, idx,
                   output_doc, file_written>>
    /\ UNCHANGED <<border_color, color_rgb, text_pos, texts, stage>>
    /\ UNCHANGED <<confirm_calls, page_text>>
    /\ UNCHANGED titles

\* process_pdf_* returned; main() falls off its end
MainReturn ==
    /\ pc = "returned"
    /\ pc' = "exit"
    /\ exit_status' = 0
    /\ UNCHANGED <<page_range_str, doc, cfg, page_indices, warnings, idx,
                   output_doc, file_written, report>>
    /\ UNCHANGED <<border_color, color_rgb, text_pos, texts, stage>>
    /\ UNCHANGED <<confirm_calls, page_text>>
    /\ UNCHANGED titles

Next ==
    \/ MainCheckInput
    \/ MainParsePages
    \/ MainConfirmSkipped
    \/ MainConfirmAccepted
    \/ MainConfirmDeclined
    \/ MainConfirmCtrlC
    \/ MainDispatch
    \/ StepHighQuality
    \/ SaveHighQuality
    \/ StepStandard
    \/ SaveStandard
    \/ MainProcessingError
    \/ MainInterrupted
    \/ MainReturn

\* page sizes of the documents main() is run on
RunSizes == {<<200, 300>>, <<300, 200>>}

\* --pages values main() is run with:
\* "all", "", "1", "2-3", "99", "x", "3,1", "0-0"
RunExprs ==
    { <<"a", "l", "l">>, <<>>, <<"1">>, <<"2", "-", "3">>, <<"9", "9">>,
      <<"x">>, <<"3", ",", "1">>, <<"0", "-", "0">> }

\* --dpi values main() is run with (only 'high' reads the dpi)
RunDpis == {150, 300}

\* --quality and --dpi pairs main() is run with
RunModes == {m \in Qualities \X RunDpis : m[1] = "high" \/ m[2] = 300}

RunCfgs ==
    { [DefaultCfg EXCEPT !.quality = m[1], !.dpi = m[2], !.pymupdf = a,
                         !.preserve_ratio = pr, !.yes = y, !.confirm = cf] :
        m \in RunModes, a \in BOOLEAN, pr \in BOOLEAN,
        y \in BOOLEAN, cf \in BOOLEAN }

\* page_numbers.format values: the default 'Page {n} of {total}' and '{n}/{total}'
RunFormats ==
    { DefaultCfg.page_numbers.format,
      <<"{", "n", "}", "/", "{", "t", "o", "t", "a", "l", "}">> }

\* start_number and format of the runs with page numbers
RunNumbering ==
    {n \in {1, 5} \X RunFormats : n[1] = 1 \/ n[2] = DefaultCfg.page_numbers.format}

\* runs with page numbers: start_number, skip_first, skip_last and format vary
RunNumberCfgs ==
    { [DefaultCfg EXCEPT !.quality = q,
                         !.page_numbers.enabled = TRUE,
                         !.page_numbers.start_number = n[1],
                         !.page_numbers.skip_first = f,
                         !.page_numbers.skip_last = l,
                         !.page_numbers.format = n[2]] :
        q \in {"original", "standard"}, n \in RunNumbering, f \in 0..1, l \in 0..1 }

\* font_color values: the default '0,0,0', '255,0,0' and the colour name 'red'
RunFontColors ==
    { [type |-> "str", value |-> <<"0", ",", "0", ",", "0">>],
      [type |-> "str", value |-> <<"2", "5", "5", ",", "0", ",", "0">>],
      [type |-> "str", value |-> <<"r", "e", "d">>] }

\* title.enabled and title.only_first_page (read only when the title is on)
RunTitleModes == {m \in BOOLEAN \X BOOLEAN : m[1] \/ m[2]}

\* runs with page numbers or a title whose font_color varies
RunFontCfgs ==
    { [DefaultCfg EXCEPT !.quality = q,
                         !.page_numbers.enabled = ~m[1],
                         !.page_numbers.font_color = fc,
                         !.title.enabled = m[1],
                         !.title.text = <<"T">>,
                         !.title.only_first_page = m[2],
                         !.title.font_color = fc] :
        q \in {"original", "standard"}, m \in RunTitleModes, fc \in RunFontColors }

\* runs with a --border-color / border.color that is not three integers of
\* 0..255: 'red', '300,0,0', and a YAML value that is not a string
RunColorCfgs ==
    { [DefaultCfg EXCEPT !.border_color = c] :
        c \in { [type |-> "str", value |-> <<"r", "e", "d">>],
                [type |-> "str", value |-> <<"3", "0", "0", ",", "0", ",", "0">>],
                [type |-> "int", value |-> <<>>] } }

\* runs with the border colours '255,128,0' and '0,0,0' on either strategy
RunBorderColorCfgs ==
    { [DefaultCfg EXCEPT !.quality = q, !.border_color = c] :
        q \in {"original", "high", "standard"},
        c \in { [type |-> "str", value |-> <<"2", "5", "5", ",", "1", "2", "8", ",", "0">>],
                [type |-> "str", value |-> <<"0", ",", "0", ",", "0">>] } }

\* the state when main() has parsed its arguments
Init ==
    /\ pc = "main"
    /\ \/ /\ cfg \in RunCfgs \cup RunNumberCfgs \cup RunColorCfgs \cup RunFontCfgs
                       \cup RunBorderColorCfgs
          /\ page_range_str \in RunExprs
          /\ doc \in SeqsUpTo(RunSizes, MaxPages)
       \/ /\ cfg \in { [DefaultCfg EXCEPT !.input = i] : i \in {"missing", "unreadable"} }
          /\ page_range_str = <<"a", "l", "l">>
          /\ doc = <<>>
    /\ page_indices = <<>>
    /\ warnings = 0
    /\ idx = 0
    /\ output_doc = <<>>
    /\ file_written = FALSE
    /\ exit_status = -1
    /\ report = "none"
    /\ border_color = <<>>
    /\ color_rgb = <<>>
    /\ text_pos = <<>>
    /\ texts = <<>>
    /\ stage = <<>>
    /\ confirm_calls = <<>>
    /\ page_text = <<>>
    /\ titles = <<>>

Spec == Init /\ [][Next]_vars

----------------------------------------------------------------------------
(* Reference semantics of a page-range expression, stated on the text of   *)
(* the expression (positions of commas and hyphens), not on the parser.    *)

\* positions that delimit tokens: before the text, each comma, after the text
RefSeps(expr) == {0, Len(expr) + 1} \cup {i \in 1..Len(expr) : expr[i] = ","}

\* the token that starts after delimiter a
RefTokenAfter(expr, a) ==
    LET b == CHOOSE x \in RefSeps(expr) :
                 x > a /\ \A y \in RefSeps(expr) : y > a => x <= y
    IN  SubSeq(expr, a + 1, b - 1)

RefStarts(expr) == RefSeps(expr) \ {Len(expr) + 1}

\* the text between the first and the last non-blank character
RefTrim(t) ==
    LET nb == {i \in 1..Len(t) : t[i] # " "} IN
    IF nb = {} THEN <<>>
    ELSE SubSeq(t, CHOOSE i \in nb : \A j \in nb : i <= j,
                   CHOOSE i \in nb : \A j \in nb : i >= j)

RefIsNumber(t) == t # <<>> /\ \A i \in 1..Len(t) : t[i] \in Digits

RECURSIVE RefValue(_)
RefValue(t) ==
    IF t = <<>> THEN 0
    ELSE 10 * RefValue(SubSeq(t, 1, Len(t) - 1)) + DigitVal(t[Len(t)])

\* t is a single integer
RefIsSingle(t) == RefIsNumber(RefTrim(t))

\* t is a range a-b with the hyphen at position k
RefIsRangeAt(t, k) ==
    /\ t[k] = "-"
    /\ RefIsNumber(RefTrim(SubSeq(t, 1, k - 1)))
    /\ RefIsNumber(RefTrim(SubSeq(t, k + 1, Len(t))))

RefIsRange(t) == \E k \in 1..Len(t) : RefIsRangeAt(t, k)

\* the 1-based page p is selected by token t of a document of total pages
RefCovers(t, p, total) ==
    \/ RefIsSingle(t) /\ RefValue(RefTrim(t)) = p /\ 1 <= p /\ p <= total
    \/ \E k \in 1..Len(t) :
          /\ RefIsRangeAt(t, k)
          /\ Max(1, RefValue(RefTrim(SubSeq(t, 1, k - 1)))) <= p
          /\ p <= Min(RefValue(RefTrim(SubSeq(t, k + 1, Len(t)))), total)

RefTokenPages(t, total) == {p - 1 : p \in {q \in 1..total : RefCovers(t, q, total)}}

\* the expression selects every page
RefIsAll(expr) ==
    \/ expr = <<>>
    \/ /\ Len(expr) = 3
       /\ expr[1] \in {"a", "A"} /\ expr[2] \in {"l", "L"} /\ expr[3] \in {"l", "L"}

RefSelected(expr, total) ==
    IF RefIsAll(expr) THEN 0..(total - 1)
    ELSE UNION {RefTokenPages(RefTokenAfter(expr, a), total) : a \in RefStarts(expr)}

\* a token that must be warned about and skipped
RefIsBad(t, total) ==
    \/ ~RefIsSingle(t) /\ ~RefIsRange(t)
    \/ RefIsSingle(t) /\ ~(1 <= RefValue(RefTrim(t)) /\ RefValue(RefTrim(t)) <= total)

\* s lists exactly the elements of S in strictly ascending order
IsAscendingListOf(s, S) ==
    /\ {s[i] : i \in 1..Len(s)} = S
    /\ \A i \in 1..Len(s) : \A j \in 1..Len(s) : i < j => s[i] < s[j]

Expr137910 ==
    <<"1", "-", "3", ",", "7", ",", "9", "-", "1", "0">>

\* C6: parse_page_range(expr, totalPages) is the ascending list of the pages
\* the reference semantics selects: every page for an empty expression or
\* 'all' in any case, else the pages p-1 covered by some token (a single
\* in-range integer, or a range a-b clamped to [1, totalPages]); in particular
\* ("1-3,7,9-10", 10) gives [0,1,2,6,8,9], ("all", 5) gives [0..4], ("99", 5) [].
C6_MatchesReference ==
    pc = "parse_returned" =>
        /\ IsAscendingListOf(page_indices, RefSelected(page_range_str, Len(doc)))
        /\ (page_range_str = Expr137910 /\ Len(doc) = 10
                => page_indices = <<0, 1, 2, 6, 8, 9>>)
        /\ (page_range_str = <<"a", "l", "l">> /\ Len(doc) = 5
                => page_indices = <<0, 1, 2, 3, 4>>)
        /\ (page_range_str = <<"9", "9">> /\ Len(doc) = 5 => page_indices = <<>>)

C6_Witness ==
    /\ pc = "parse_returned"
    /\ page_range_str = Expr137910
    /\ Len(doc) = 10
    /\ page_indices = <<0, 1, 2, 6, 8, 9>>

\* C7: for every expression, well-formed or not, and every totalPages >= 0 the
\* returned list is strictly ascending (so it has no duplicates, also when
\* tokens overlap or repeat) and every element i has 0 <= i < totalPages.
C7_AscendingInRange ==
    pc = "parse_returned" =>
        /\ \A i \in 1..Len(page_indices) :
              0 <= page_indices[i] /\ page_indices[i] < Len(doc)
        /\ \A i \in 1..Len(page_indices) : \A j \in 1..Len(page_indices) :
              i < j => page_indices[i] < page_indices[j]

\* overlapping and repeated tokens, given out of order: "7,1-3, 2 "
C7_Witness ==
    /\ pc = "parse_returned"
    /\ page_range_str = <<"7", ",", "1", "-", "3", ",", " ", "2", " ">>
    /\ Len(doc) = 10
    /\ page_indices = <<0, 1, 2, 6>>

\* C8: parse_page_range never raises; every malformed token and every single
\* number outside [1, totalPages] costs exactly one warning and contributes no
\* page, and the result is the union of what the remaining tokens select.
C8_NeverRaises ==
    /\ pc # "parse_raised"
    /\ pc = "parse_returned" /\ ~RefIsAll(page_range_str) =>
        LET total == Len(doc)
            bad == {a \in RefStarts(page_range_str) :
                       RefIsBad(RefTokenAfter(page_range_str, a), total)}
            good == RefStarts(page_range_str) \ bad
        IN  /\ warnings = Cardinality(bad)
            /\ {page_indices[i] : i \in 1..Len(page_indices)} =
                   UNION {RefTokenPages(RefTokenAfter(page_range_str, a), total) :
                              a \in good}

\* "1-2-3,7,3-": two malformed tokens around a valid one
C8_Witness ==
    /\ pc = "parse_returned"
    /\ page_range_str = <<"1", "-", "2", "-", "3", ",", "7", ",", "3", "-">>
    /\ Len(doc) = 10
    /\ warnings = 2
    /\ page_indices = <<6>>

----------------------------------------------------------------------------
(* Geometry claims, on the pages appended to the output document *)

OutputPages == {output_doc[k] : k \in 1..Len(output_doc)}

\* m = outerMargin + innerPadding
RefMargin == cfg.outer_margin + cfg.inner_padding

\* the page can hold its content: 2m < min(W, H)
RefRenderable(p) == 2 * RefMargin < p.width /\ 2 * RefMargin < p.height

\* min((W-2m)/W, (H-2m)/H)
RefUniformScale(p) ==
    LET m == RefMargin IN
    IF (p.width - 2 * m) * p.height <= (p.height - 2 * m) * p.width
    THEN Q(p.width - 2 * m, p.width)
    ELSE Q(p.height - 2 * m, p.height)

\* [m, W-m] x [m, H-m] as x0, y0, x1, y1
RefContentBounds(p) ==
    <<RInt(RefMargin), RInt(RefMargin),
      RInt(p.width - RefMargin), RInt(p.height - RefMargin)>>

\* the page the other back end produces for the same source page
OtherBackend(p) ==
    IF p.backend = "pymupdf" THEN StandardPage(p.src, p.width, p.height, cfg)
    ELSE HighQualityPage(p.src, p.width, p.height, cfg)

\* C1: with preserve_ratio and 2m < min(W,H) one scale min((W-2m)/W,(H-2m)/H)
\* is applied to both axes, the offsets are m + (avail - size*scale)/2, the
\* scaled content is exactly centred on the page and lies within
\* [m, W-m] x [m, H-m]; both back ends compute the same scale and offsets.
C1_AspectPreservingCentred ==
    \A p \in OutputPages :
        cfg.preserve_ratio /\ RefRenderable(p) =>
            LET sc == RefUniformScale(p)
                w == RMul(RInt(p.width), sc)
                h == RMul(RInt(p.height), sc)
                bx == RefContentBounds(p)
            IN  /\ p.scale_x = sc /\ p.scale_y = sc
                /\ p.translate_x =
                       RAdd(RInt(RefMargin),
                            RHalf(RSub(RInt(p.width - 2 * RefMargin), w)))
                /\ p.translate_y =
                       RAdd(RInt(RefMargin),
                            RHalf(RSub(RInt(p.height - 2 * RefMargin), h)))
                /\ RAdd(p.translate_x, RHalf(w)) = Q(p.width, 2)
                /\ RAdd(p.translate_y, RHalf(h)) = Q(p.height, 2)
                /\ RLe(bx[1], p.translate_x) /\ RLe(RAdd(p.translate_x, w), bx[3])
                /\ RLe(bx[2], p.translate_y) /\ RLe(RAdd(p.translate_y, h), bx[4])
                /\ (p.render # "insert_image" =>
                        p.rect = <<p.translate_x, p.translate_y,
                                   RAdd(p.translate_x, w), RAdd(p.translate_y, h)>>)
                /\ OtherBackend(p).scale_x = p.scale_x
                /\ OtherBackend(p).scale_y = p.scale_y
                /\ OtherBackend(p).translate_x = p.translate_x
                /\ OtherBackend(p).translate_y = p.translate_y

\* a landscape page scaled by its height and centred horizontally
C1_Witness ==
    /\ cfg.preserve_ratio
    /\ cfg.outer_margin = 10 /\ cfg.inner_padding = 10
    /\ \E p \in OutputPages :
          /\ p.backend = "pymupdf"
          /\ p.width = 200 /\ p.height = 100
          /\ p.scale_x = Q(3, 5)
          /\ p.translate_x = RInt(40) /\ p.translate_y = RInt(20)

\* C2 as claimed: with preserve_ratio = false the content is scaled by
\* availW/W and availH/H independently, offset by totalMargin, and placed
\* exactly on [m, W-m] x [m, H-m], in every rendering strategy.
C2_StretchFlushEverywhere ==
    \A p \in OutputPages :
        ~cfg.preserve_ratio /\ RefRenderable(p) =>
            /\ p.scale_x = Q(p.width - 2 * RefMargin, p.width)
            /\ p.scale_y = Q(p.height - 2 * RefMargin, p.height)
            /\ p.translate_x = RInt(RefMargin) /\ p.translate_y = RInt(RefMargin)
            /\ p.rect = RefContentBounds(p)

\* C3 as claimed: when availW <= 0 or availH <= 0 a warning is reported and
\* the transform used still has scaleX > 0 and scaleY > 0; the scale applied
\* to a page is always strictly positive.
C3_ScalePositive ==
    \A p \in OutputPages :
        /\ RLt(RInt(0), p.scale_x) /\ RLt(RInt(0), p.scale_y)
        /\ (~RefRenderable(p) => warnings > 0)

\* C4: the border's outer rectangle is [outerMargin, W-outerMargin] x
\* [outerMargin, H-outerMargin] for every page, style and strategy; another
\* innerPadding changes the content scale and leaves the rectangle as it is.
C4_BorderIndependentOfPadding ==
    \A p \in OutputPages :
        /\ p.border = <<RInt(cfg.outer_margin), RInt(cfg.outer_margin),
                        RInt(p.width - cfg.outer_margin),
                        RInt(p.height - cfg.outer_margin)>>
        /\ \A i \in 0..MaxInnerSteps :
              10 * i # cfg.inner_padding =>
                  LET c2 == [cfg EXCEPT !.inner_padding = 10 * i]
                      q == IF p.backend = "pymupdf"
                           THEN HighQualityPage(p.src, p.width, p.height, c2)
                           ELSE StandardPage(p.src, p.width, p.height, c2)
                  IN  q.border = p.border /\ q.scale_x # p.scale_x

C4_Witness ==
    /\ cfg.outer_margin = 10 /\ cfg.inner_padding = 30
    /\ \E p \in OutputPages :
          /\ p.backend = "pymupdf"
          /\ p.width = 100 /\ p.height = 200
          /\ p.border = <<RInt(10), RInt(10), RInt(90), RInt(190)>>

\* C5: for style 'rounded' with cornerRadius > 0 the radius drawn is
\* min(cornerRadius, (x1-x0)/2, (y1-y0)/2, 50) of the border rectangle, so it
\* never exceeds half the width, half the height or 50 points (cornerRadius
\* 1000 on a 100x100 page with outerMargin 10 gives 40); both back ends
\* compute the same radius.
C5_RadiusClamped ==
    \A p \in OutputPages :
        cfg.border_style = "rounded" /\ cfg.corner_radius > 0 =>
            LET halfw == Q(p.width - 2 * cfg.outer_margin, 2)
                halfh == Q(p.height - 2 * cfg.outer_margin, 2)
                cands == {RInt(cfg.corner_radius), halfw, halfh, RInt(50)}
            IN  /\ p.outline = "rounded"
                /\ p.radius \in cands
                /\ \A x \in cands : RLe(p.radius, x)
                /\ OtherBackend(p).radius = p.radius
                /\ (cfg.corner_radius = 1000 /\ p.width = 100 /\ p.height = 100
                        /\ cfg.outer_margin = 10 => p.radius = RInt(40))

\* the absolute cap decides: cornerRadius 1000 on a 200x200 page
C5_Witness ==
    /\ cfg.border_style = "rounded" /\ cfg.corner_radius = 1000
    /\ cfg.outer_margin = 10
    /\ \E p \in OutputPages :
          p.width = 200 /\ p.height = 200 /\ p.radius = RInt(50)

----------------------------------------------------------------------------
(* Claims about a run of main() *)

\* C9: if the page-range expression selects no valid page the run ends as a
\* fatal error with a nonzero exit status before any page is processed and
\* without an output file; it never goes on as if all pages were selected.
C9_EmptySelectionFatal ==
    cfg.input = "ok" /\ RefSelected(page_range_str, Len(doc)) = {} =>
        /\ pc \in {"main", "read", "exit"}
        /\ output_doc = <<>>
        /\ idx = 0
        /\ ~file_written
        /\ (pc = "exit" => exit_status = 1 /\ report = "no valid pages")

\* "99" on a three-page document
C9_Witness ==
    /\ pc = "exit"
    /\ exit_status = 1
    /\ page_range_str = <<"9", "9">>
    /\ Len(doc) = 3
    /\ warnings = 1
    /\ ~file_written

\* C10 as claimed: the output document has as many pages as the input
\* document, each of the width and height of its source page, whatever the
\* page-range selection, border spec and rendering strategy.
C10_SamePageCountAndSize ==
    file_written =>
        /\ Len(output_doc) = Len(doc)
        /\ \A k \in 1..Len(output_doc) :
              /\ output_doc[k].width = doc[output_doc[k].src + 1][1]
              /\ output_doc[k].height = doc[output_doc[k].src + 1][2]

----------------------------------------------------------------------------
(* Render strategies and the dispatch of main()                            *)

\* the run asked for PyMuPDF rendering and PyMuPDF could not be imported
BackendMissing == cfg.quality # "standard" /\ ~cfg.pymupdf

\* the strategy main() chooses for the run
RefStrategy ==
    IF cfg.quality = "standard" \/ BackendMissing THEN "standard" ELSE cfg.quality

\* warnings printed by parse_page_range and parse_color for the run's
\* --pages and --border-color values
ParseWarnings ==
    parse_page_range(page_range_str, Len(doc)).warn + parse_color(cfg.border_color).warn

\* main() has passed its dispatch
Dispatched ==
    \/ pc \in {"high_quality", "standard", "returned"}
    \/ pc = "exit" /\ report \in {"saved", "error processing PDF", "interrupted by user",
                                   FontColorError}

\* C11: the quality mode determines the render strategy of the run:
\* 'original' places the source page with show_pdf_page (a scaled embedded
\* object, nothing rasterized); 'high' rasterizes with matrix factor
\* scale*(dpi/72) and 'medium' with scale*2 and paints the pixmap as an image;
\* 'standard' (and the fallback of C12) uses only add_transformation and
\* merge_page and never rasterizes; every page of one run is rendered with
\* the strategy chosen for the run.
C11_QualityDeterminesStrategy ==
    \A p \in OutputPages :
        /\ RefStrategy = "original" =>
              p.backend = "pymupdf" /\ p.render = "show_pdf_page"
        /\ RefStrategy = "high" =>
              /\ p.backend = "pymupdf" /\ p.render = "insert_image"
              /\ p.matrix = RMul(p.scale_x, Q(cfg.dpi, 72))
        /\ RefStrategy = "medium" =>
              /\ p.backend = "pymupdf" /\ p.render = "insert_image"
              /\ p.matrix = RMul(p.scale_x, RInt(2))
        /\ RefStrategy = "standard" =>
              p.backend = "reportlab" /\ p.render = "add_transformation"
        /\ \A q \in OutputPages : q.backend = p.backend /\ q.render = p.render

\* a finished 'high' run at 150 dpi over two 200x300 pages: factor 23/50 * 150/72
C11_Witness ==
    /\ pc = "exit"
    /\ file_written
    /\ cfg.quality = "high" /\ cfg.dpi = 150 /\ cfg.pymupdf
    /\ Len(output_doc) = 2
    /\ \A p \in OutputPages : p.render = "insert_image" /\ p.matrix = Q(23, 24)

\* C12: when the mode is 'original', 'high' or 'medium' and PyMuPDF is
\* unavailable the run is not aborted: one warning is printed and every
\* selected page is processed by the 'standard' strategy; when the mode is
\* 'standard' the standard strategy runs without that warning whether or not
\* PyMuPDF is available.
C12_FallbackToStandard ==
    /\ Dispatched =>
          warnings = ParseWarnings + (IF BackendMissing THEN 1 ELSE 0)
    /\ BackendMissing \/ cfg.quality = "standard" =>
          /\ pc # "high_quality"
          /\ \A p \in OutputPages : p.backend = "reportlab"
          /\ file_written =>
                /\ Len(output_doc) = Len(page_indices)
                /\ \A k \in 1..Len(output_doc) : output_doc[k].src = page_indices[k]
    /\ BackendMissing /\ pc = "exit" /\ exit_status # 0 =>
          report \in {"input file not found", "error reading PDF", "no valid pages",
                      "error processing PDF", "interrupted by user", FontColorError}

\* 'medium' without PyMuPDF: both pages of the document come out of the
\* standard path after one warning
C12_Witness ==
    /\ pc = "exit"
    /\ exit_status = 0
    /\ file_written
    /\ cfg.quality = "medium" /\ ~cfg.pymupdf
    /\ warnings = 1
    /\ Len(output_doc) = 2
    /\ \A p \in OutputPages : p.backend = "reportlab"

----------------------------------------------------------------------------
(* Failures and cancellations                                              *)

C14_CancellationExitsNonzero ==
    pc = "exit" /\ report \in {"cancelled", "cancelled (Ctrl+C)", "interrupted by user"} =>
        /\ ~file_written
        /\ exit_status # 0

----------------------------------------------------------------------------
(* Colours                                                                 *)

\* the n-th comma-separated part of v, counted from 1
RefPart(v, n) ==
    RefTokenAfter(v, CHOOSE a \in RefStarts(v) :
                         Cardinality({b \in RefStarts(v) : b < a}) = n - 1)

\* v is "R,G,B" with three unsigned integers of 0..255 (blanks allowed)
RefIsByteTriple(v) ==
    /\ Cardinality(RefStarts(v)) = 3
    /\ \A n \in 1..3 :
          /\ RefIsNumber(RefTrim(RefPart(v, n)))
          /\ RefValue(RefTrim(RefPart(v, n))) <= 255

RefByteTriple(v) == [n \in 1..3 |-> RefValue(RefTrim(RefPart(v, n)))]

RefHexDigits == Digits \cup {"a", "b", "c", "d", "e", "f"}

RefHexVal(c) ==
    CASE c = "a" -> 10 [] c = "b" -> 11 [] c = "c" -> 12
      [] c = "d" -> 13 [] c = "e" -> 14 [] c = "f" -> 15
      [] OTHER -> DigitVal(c)

\* v is "#rrggbb"
RefIsHex(v) ==
    Len(v) = 7 /\ v[1] = "#" /\ \A i \in 2..7 : v[i] \in RefHexDigits

RefHexTriple(v) == [n \in 1..3 |-> 16 * RefHexVal(v[2 * n]) + RefHexVal(v[2 * n + 1])]

RefIsNamed(v) ==
    v \in { <<"r", "e", "d">>, <<"b", "l", "a", "c", "k">>, <<"w", "h", "i", "t", "e">> }

RefNamedTriple(v) ==
    IF v = <<"r", "e", "d">> THEN <<255, 0, 0>>
    ELSE IF v = <<"w", "h", "i", "t", "e">> THEN <<255, 255, 255>>
    ELSE <<0, 0, 0>>

\* v is a colour in one of the three forms, and its 0-255 triple
RefIsColor(v) == RefIsNamed(v) \/ RefIsHex(v) \/ RefIsByteTriple(v)

RefColor(v) ==
    IF RefIsNamed(v) THEN RefNamedTriple(v)
    ELSE IF RefIsHex(v) THEN RefHexTriple(v)
    ELSE RefByteTriple(v)

\* t is an integer literal: an optionally signed run of digits, blanks around it
RefIsIntegerPart(t) ==
    LET u == RefTrim(t) IN
    IF u # <<>> /\ u[1] \in {"+", "-"} THEN RefIsNumber(SubSeq(u, 2, Len(u)))
    ELSE RefIsNumber(u)

\* c is not a string, has not three parts, or has a part that is no integer
RefInvalidColor(c) ==
    \/ c.type # "str"
    \/ Cardinality(RefStarts(c.value)) # 3
    \/ \E n \in 1..3 : ~RefIsIntegerPart(RefPart(c.value, n))

\* parse_color has returned
ColorReturned == pc \in {"color_parsed", "color_shown"}

\* C15 as claimed: the colour parser turns every accepted input (a named
\* colour, a hex string, a triple of 0-255 components) into its RGB triple
\* with components in [0,1], and for every input string the returned triple
\* lies in [0,1]^3.
C15_NormalisedIntoUnitCube ==
    ColorReturned /\ cfg.border_color.type = "str" =>
        /\ \A i \in 1..3 :
              RLe(RInt(0), border_color[i]) /\ RLe(border_color[i], RInt(1))
        /\ RefIsColor(cfg.border_color.value) =>
              border_color = [i \in 1..3 |-> Q(RefColor(cfg.border_color.value)[i], 255)]

\* C16: parse_color never raises: for every input that is not a valid colour
\* (wrong number of comma-separated parts, a part that is not an integer, a
\* value that is not a string) it prints a warning and returns exactly
\* (0,0,0), and the caller goes on with black.
C16_InvalidColourYieldsBlack ==
    /\ pc # "color_raised"
    /\ ColorReturned /\ RefInvalidColor(cfg.border_color) =>
          border_color = Black /\ warnings = 1
    /\ pc = "color_shown" /\ RefInvalidColor(cfg.border_color) =>
          color_rgb = <<0, 0, 0>>

\* "255,x,0" has a part that is not an integer
C16_Witness ==
    /\ pc = "color_shown"
    /\ cfg.border_color.value = <<"2", "5", "5", ",", "x", ",", "0">>
    /\ border_color = Black
    /\ warnings = 1

----------------------------------------------------------------------------
(* Text anchors                                                            *)

\* the inset of the text bounds from the page edges
RefInset(t) == IF t.location = Inside THEN t.outer_margin + t.margin ELSE t.margin

\* C18: for each of the nine positions and both locations
\* calculate_text_position returns (x, y), origin bottom left, with the
\* bounds inset by outerMargin + margin when the location is 'inside' and by
\* margin alone otherwise; x = boundLeft for left, boundRight - textWidth for
\* right, (pageWidth - textWidth)/2 for center; y = boundTop - textHeight for
\* top, boundBottom for bottom, pageHeight/2 for center. Bottom-right,
\* outside, margin 5 on a 200x300 page with a 40x10 text gives (155, 5).
C18_TextAnchor ==
    pc = "text_position_returned" =>
        LET t == text_pos
            left == RefInset(t)
            right == t.page_width - RefInset(t)
            top == t.page_height - RefInset(t)
            bottom == RefInset(t)
        IN  /\ \E v \in Vertical, h \in Horizontal :
                  /\ t.position = v \o <<"-">> \o h
                  /\ t.x = CASE h = <<"l", "e", "f", "t">> -> RInt(left)
                              [] h = <<"r", "i", "g", "h", "t">> -> RInt(right - t.text_width)
                              [] OTHER -> Q(t.page_width - t.text_width, 2)
                  /\ t.y = CASE v = <<"t", "o", "p">> -> RInt(top - t.text_height)
                              [] v = <<"b", "o", "t", "t", "o", "m">> -> RInt(bottom)
                              [] OTHER -> Q(t.page_height, 2)
            /\ (/\ t.position = <<"b", "o", "t", "t", "o", "m", "-", "r", "i", "g", "h", "t">>
                /\ t.location = Outside /\ t.margin = 5
                /\ t.page_width = 200 /\ t.page_height = 300
                /\ t.text_width = 40 /\ t.text_height = 10)
               => t.x = RInt(155) /\ t.y = RInt(5)

\* the worked example, and the same call 'inside' a border at 36 pt
C18_Witness ==
    /\ pc = "text_position_returned"
    /\ text_pos.position = <<"b", "o", "t", "t", "o", "m", "-", "r", "i", "g", "h", "t">>
    /\ text_pos.location = Outside
    /\ text_pos.margin = 5 /\ text_pos.outer_margin = 36
    /\ text_pos.page_width = 200 /\ text_pos.page_height = 300
    /\ text_pos.text_width = 40 /\ text_pos.text_height = 10
    /\ text_pos.x = RInt(155) /\ text_pos.y = RInt(5)

----------------------------------------------------------------------------
(* Page numbers                                                            *)

\* successive page numbers drawn by one run increase strictly
NumbersIncrease ==
    \A k \in 1..(Len(texts) - 1) : texts[k].number < texts[k + 1].number

\* C19 as claimed: the number displayed on a page is
\* startNumber + (pageIndex - skipFirst) with pageIndex the zero-based index
\* of the source page (the value held in the selection), for every
\* selection, and the numbers on successive output pages increase strictly.
C19_NumberBySourceIndex ==
    /\ \A k \in 1..Len(texts) :
          texts[k].number =
              cfg.page_numbers.start_number + (texts[k].src - cfg.page_numbers.skip_first)
    /\ NumbersIncrease

\* C19 amended: the number displayed on a page is
\* startNumber + (p - 1 - skipFirst) with p the 1-based position of the page
\* in the processed sequence (idx + 1 in the loop over the selection), not
\* the index of its source page; the two agree when the selection is all
\* pages; the numbers on successive output pages increase strictly.
C19_NumberByPosition ==
    /\ \A k \in 1..Len(texts) :
          /\ texts[k].page \in 1..Len(page_indices)
          /\ page_indices[texts[k].page] = texts[k].src
          /\ texts[k].number =
                cfg.page_numbers.start_number
                    + (texts[k].page - 1 - cfg.page_numbers.skip_first)
          /\ Len(page_indices) = Len(doc) => texts[k].src = texts[k].page - 1
    /\ NumbersIncrease

\* --pages 2-3 on a three-page document, numbers starting at 5: the source
\* pages of index 1 and 2 are numbered 5 and 6
C19_Witness ==
    /\ pc = "exit"
    /\ file_written
    /\ page_indices = <<1, 2>>
    /\ cfg.page_numbers.start_number = 5 /\ cfg.page_numbers.skip_first = 0
    /\ Len(texts) = 2
    /\ texts[1].src = 1 /\ texts[1].number = 5
    /\ texts[2].src = 2 /\ texts[2].number = 6

----------------------------------------------------------------------------
(* Page stages                                                             *)

StageRank(st) ==
    CASE st = "Selected" -> 0
      [] st = "TransformComputed" -> 1
      [] st = "ContentPlaced" -> 2
      [] st = "BorderDrawn" -> 3
      [] st = "TextPlaced" -> 4
      [] st = "Committed" -> 5

\* one step of one page: to the next stage, TextPlaced being optional
StageStep(from, to) ==
    \/ StageRank(to) = StageRank(from) + 1
    \/ from = "BorderDrawn" /\ to = "Committed"

\* C20: each selected page passes through Selected, TransformComputed,
\* ContentPlaced, BorderDrawn, optionally TextPlaced, and Committed in
\* exactly this order and never moves to an earlier stage, in the PyMuPDF
\* and in the pypdf/ReportLab strategy alike; a page is Committed before the
\* next selected page leaves Selected.
C20_StagesInOrder ==
    [][ \A k \in 1..Len(stage) :
            stage'[k] # stage[k] =>
                /\ StageStep(stage[k], stage'[k])
                /\ \A j \in 1..(k - 1) : stage[j] = "Committed"
                /\ \A j \in (k + 1)..Len(stage) : stage[j] = "Selected" ]_vars

\* the standard strategy has committed the first of three pages and drawn
\* the number of the second; the third is still Selected
C20_Witness ==
    /\ pc = "std_merge"
    /\ stage = <<"Committed", "TextPlaced", "Selected">>
    /\ Len(output_doc) = 1
    /\ Len(texts) = 2

----------------------------------------------------------------------------
(* The no-op border spec                                                   *)

\* the page a second pass of the same strategy makes of output page p
SecondPass(p) ==
    IF p.backend = "pymupdf" THEN HighQualityPage(p.src, p.width, p.height, cfg)
    ELSE StandardPage(p.src, p.width, p.height, cfg)

\* C21: with outerMargin = 0 and innerPadding = 0 the computed transform is
\* the identity (scale 1 on both axes, translation 0) for every page size and
\* both preserve_ratio settings, so one pass, and a second pass over its
\* result, leave the page dimensions and the content box unchanged.
C21_NoOpSpecIsIdentity ==
    \A p \in OutputPages :
        cfg.outer_margin = 0 /\ cfg.inner_padding = 0 =>
            /\ p.scale_x = RInt(1) /\ p.scale_y = RInt(1)
            /\ p.translate_x = RInt(0) /\ p.translate_y = RInt(0)
            /\ p.width = doc[p.src + 1][1] /\ p.height = doc[p.src + 1][2]
            /\ p.rect = <<RInt(0), RInt(0), RInt(p.width), RInt(p.height)>>
            /\ SecondPass(p).width = p.width /\ SecondPass(p).height = p.height
            /\ SecondPass(p).rect = p.rect

\* a 100x200 page stretched (preserve_ratio off) by PyMuPDF with no margins
C21_Witness ==
    /\ file_written
    /\ cfg.outer_margin = 0 /\ cfg.inner_padding = 0
    /\ ~cfg.preserve_ratio
    /\ doc = << <<100, 200>> >>
    /\ Len(output_doc) = 1
    /\ output_doc[1].backend = "pymupdf"
    /\ output_doc[1].rect = <<RInt(0), RInt(0), RInt(100), RInt(200)>>

----------------------------------------------------------------------------
(* The confirmation prompt                                                 *)

\* a page is being processed or has been processed, or the output is written
ProcessingStarted ==
    \/ pc \in {"high_quality", "standard", "returned"}
    \/ idx > 0 \/ output_doc # <<>> \/ texts # <<>> \/ file_written

\* C22: confirm_proceed is called at most once per run, before the first page
\* is processed and never inside the page loop; processing starts only if the
\* prompt was skipped (-y or processing.confirm false) or returned true; if it
\* returned false no page is processed and no output is written.
C22_ConfirmOnceUpstream ==
    /\ [](Len(confirm_calls) <= 1)
    /\ [][confirm_calls' # confirm_calls => ~ProcessingStarted /\ idx = 0]_vars
    /\ [](ProcessingStarted =>
            \/ confirm_calls = <<>> /\ (cfg.yes \/ ~cfg.confirm)
            \/ confirm_calls = <<TRUE>>)
    /\ [](confirm_calls = <<FALSE>> =>
            /\ ~ProcessingStarted
            /\ (pc = "exit" => exit_status = 0 /\ ~file_written /\ output_doc = <<>>))

\* a run that was prompted, was declined and ended without any page processed
C22_Witness ==
    /\ pc = "exit"
    /\ confirm_calls = <<FALSE>>
    /\ ~cfg.yes /\ cfg.confirm
    /\ Len(page_indices) = 2
    /\ output_doc = <<>> /\ ~file_written

----------------------------------------------------------------------------
(* The outline of the border                                               *)

\* the four corner points inset by r, in drawing order, with the angle at
\* which the arc around each begins
RefCorners(b, r) ==
    << <<RSub(b[3], r), RAdd(b[2], r), -90>>, <<RSub(b[3], r), RSub(b[4], r), 0>>,
       <<RAdd(b[1], r), RSub(b[4], r), 90>>, <<RAdd(b[1], r), RAdd(b[2], r), 180>> >>

\* a segment between two exactly known points on one horizontal or vertical line
RefStraight(seg) ==
    /\ \A k \in 1..2 : seg.p1[k][1] = "at" /\ seg.p2[k][1] = "at"
    /\ seg.p1[1] = seg.p2[1] \/ seg.p1[2] = seg.p2[2]

\* C23: for style 'rounded' with 0 < actualRadius the outline drawn by the
\* PyMuPDF strategy is one closed path of exactly 44 line segments: four
\* straight edges alternating with four corner arcs of 10 segments of 9 degrees
\* each, every arc centred at the corner point inset by actualRadius; each
\* segment starts where the previous one ends and the last ends where the
\* first begins; the path is stroked with the line width and never filled.
C23_RoundedPathClosed ==
    \A p \in OutputPages :
        p.backend = "pymupdf" /\ cfg.border_style = "rounded" /\ RLt(RInt(0), p.radius) =>
            /\ p.outline = "rounded"
            /\ Len(p.path) = 44
            /\ \A i \in 1..44 : p.path[i].p2 = p.path[(i % 44) + 1].p1
            /\ \A k \in 0..3 :
                  LET corner == RefCorners(p.border, p.radius)[k + 1] IN
                  /\ RefStraight(p.path[11 * k + 1])
                  /\ \A j \in 1..10 :
                        LET seg == p.path[11 * k + 1 + j] IN
                        /\ seg.p1 = PolarPoint(corner[1], corner[2], p.radius,
                                               corner[3] + 9 * (j - 1))
                        /\ seg.p2 = PolarPoint(corner[1], corner[2], p.radius,
                                               corner[3] + 9 * j)
            /\ p.line_width = cfg.border_width
            /\ p.fill = "None"

\* a 200x100 page with a border of width 3 at 10 points whose radius 45 is cut to 40
C23_Witness ==
    /\ file_written
    /\ cfg.border_style = "rounded" /\ cfg.corner_radius = 45
    /\ cfg.outer_margin = 10 /\ cfg.border_width = 3
    /\ doc = << <<200, 100>> >>
    /\ Len(output_doc) = 1
    /\ output_doc[1].backend = "pymupdf"
    /\ output_doc[1].radius = RInt(40)
    /\ Len(output_doc[1].path) = 44
    /\ output_doc[1].path[1].p1 = Point(RInt(50), RInt(10))
    /\ output_doc[1].path[44].p2 = Point(RInt(50), RInt(10))

\* the outline a style stands for: kind of figure and dash pattern
RefOutline(c) ==
    IF c.border_style = "rounded" /\ c.corner_radius > 0
    THEN [outline |-> "rounded", dash |-> <<>>]
    ELSE IF c.border_style = "dashed" THEN [outline |-> "rect", dash |-> <<6, 3>>]
    ELSE IF c.border_style = "dotted" THEN [outline |-> "rect", dash |-> <<2, 2>>]
    ELSE [outline |-> "rect", dash |-> <<>>]

\* C24: the outline depends only on the style, identically in every rendering
\* strategy: 'solid' is a plain rectangle, 'dashed' the same rectangle with
\* dash pattern 6-on/3-off, 'dotted' the same with 2-on/2-off, and 'rounded'
\* with cornerRadius <= 0 is exactly what 'solid' is.
C24_OutlineByStyleOnly ==
    \A p \in OutputPages :
        /\ p.outline = RefOutline(cfg).outline
        /\ p.dash = RefOutline(cfg).dash
        /\ OtherBackend(p).outline = p.outline
        /\ OtherBackend(p).dash = p.dash
        /\ OtherBackend(p).border = p.border

----------------------------------------------------------------------------
(* The text of a page number                                               *)

\* the format with each placeholder, met from left to right, replaced in one go
RECURSIVE RefExpand(_, _, _)
RefExpand(s, n, t) ==
    IF s = <<>> THEN <<>>
    ELSE IF Len(s) >= 3 /\ SubSeq(s, 1, 3) = <<"{", "n", "}">>
         THEN Str(n) \o RefExpand(SubSeq(s, 4, Len(s)), n, t)
    ELSE IF Len(s) >= 7 /\ SubSeq(s, 1, 7) = <<"{", "t", "o", "t", "a", "l", "}">>
         THEN Str(t) \o RefExpand(SubSeq(s, 8, Len(s)), n, t)
    ELSE <<Head(s)>> \o RefExpand(Tail(s), n, t)

\* '{n}' occurs in s
RefHasN(s) == \E i \in 1..(Len(s) - 2) : s[i] = "{" /\ s[i + 1] = "n" /\ s[i + 2] = "}"

\* C26: format_page_number returns the format string with every '{n}' replaced
\* by the current page number and every '{total}' by the total; if the format
\* string has no '{n}' it returns the empty string, for every current page
\* number and total.
C26_FormatPageNumber ==
    pc = "format_returned" =>
        page_text.result =
            IF RefHasN(page_text.format_string)
            THEN RefExpand(page_text.format_string, page_text.current_page,
                           page_text.total_pages)
            ELSE <<>>

----------------------------------------------------------------------------
(* Font colours                                                            *)

\* a page number or a title is configured with a font colour that is no
\* 'R,G,B' triple of integers
RefBadFontColor ==
    \/ cfg.page_numbers.enabled /\ RefInvalidColor(cfg.page_numbers.font_color)
    \/ cfg.title.enabled /\ cfg.title.text # <<>> /\ RefInvalidColor(cfg.title.font_color)

\* C25: an invalid color string given as page_numbers.font_color or
\* title.font_color is a recoverable configuration error: it is reported as a
\* warning, resolved to black, and the run continues and writes its output
\* (it does not abort the run), in both the PyMuPDF and the ReportLab text path.
C25_InvalidFontColorRecoverable ==
    RefBadFontColor =>
        /\ report # FontColorError
        /\ pc = "exit" /\ report = "saved" =>
              /\ exit_status = 0 /\ file_written
              /\ warnings > ParseWarnings
              /\ \A k \in 1..Len(texts) : texts[k].color = Black
              /\ \A k \in 1..Len(titles) : titles[k].color = Black

----------------------------------------------------------------------------
(* The rectangle of rasterized content                                     *)

\* C27: with preserve_ratio the rectangle the content is placed into is the
\* same for the rasterized modes ('high', 'medium') as for 'original': origin
\* (x_offset, y_offset) and size W*scale x H*scale, so for every page shape
\* it lies inside [totalMargin, W-totalMargin] x [totalMargin, H-totalMargin].
C27_RasterRectAsVector ==
    \A p \in OutputPages :
        cfg.preserve_ratio /\ RefRenderable(p) /\ p.render = "insert_image" =>
            LET sc == RefUniformScale(p)
                b == RefContentBounds(p)
            IN  /\ p.rect = <<p.translate_x, p.translate_y,
                              RAdd(p.translate_x, RMul(RInt(p.width), sc)),
                              RAdd(p.translate_y, RMul(RInt(p.height), sc))>>
                /\ p.rect = HighQualityPage(p.src, p.width, p.height,
                                            [cfg EXCEPT !.quality = "original"]).rect
                /\ RLe(b[1], p.rect[1]) /\ RLe(b[2], p.rect[2])
                /\ RLe(p.rect[3], b[3]) /\ RLe(p.rect[4], b[4])

----------------------------------------------------------------------------
(* The colour of the border stroke                                         *)

\* the stroke colour given to the drawing library for page p, as numbers
RefStroke(p) ==
    IF p.backend = "pymupdf" THEN [i \in 1..Len(p.color) |-> RInt(p.color[i])]
    ELSE p.color

\* C28: the border colour handed to the drawing library is the same RGB
\* triple with every component in [0,1] in both strategies: for every parsed
\* 0-255 triple the value passed to the PyMuPDF shape equals the value passed
\* to the ReportLab canvas.
C28_SameStrokeColor ==
    \A p \in OutputPages :
        cfg.border_color.type = "str" /\ RefIsByteTriple(cfg.border_color.value) =>
            /\ Len(RefStroke(p)) = 3
            /\ \A i \in 1..3 :
                  /\ RLe(RInt(0), RefStroke(p)[i]) /\ RLe(RefStroke(p)[i], RInt(1))
                  /\ RefStroke(p)[i] = Q(RefByteTriple(cfg.border_color.value)[i], 255)
            /\ RefStroke(OtherBackend(p)) = RefStroke(p)

----------------------------------------------------------------------------
(* The pages of the output                                                 *)

\* source indices of the pages in a sequence of page records
Sources(pages) == {pages[k].src : k \in 1..Len(pages)}

\* C29: after a successful run over a selection page_indices of length N the
\* output document has exactly N pages and output page k comes from source
\* page page_indices[k]: every selected source page appears exactly once, in
\* ascending source-index order, and no source page is transformed more than
\* once during the run.
C29_OutputIsTheSelection ==
    /\ [](pc = "exit" /\ report = "saved" =>
            /\ file_written
            /\ Len(output_doc) = Len(page_indices)
            /\ \A k \in 1..Len(output_doc) : output_doc[k].src = page_indices[k]
            /\ Sources(output_doc) = RefSelected(page_range_str, Len(doc))
            /\ Cardinality(Sources(output_doc)) = Len(output_doc)
            /\ \A j, k \in 1..Len(output_doc) :
                  j < k => output_doc[j].src < output_doc[k].src)
    /\ [][output_doc' # output_doc =>
            /\ Len(output_doc') = Len(output_doc) + 1
            /\ SubSeq(output_doc', 1, Len(output_doc)) = output_doc
            /\ output_doc'[Len(output_doc')].src \notin Sources(output_doc)]_vars

\* pages 1 and 3 of a three-page document, asked for as '3,1'
C29_Witness ==
    /\ pc = "exit" /\ report = "saved"
    /\ page_range_str = <<"3", ",", "1">>
    /\ Len(doc) = 3
    /\ page_indices = <<0, 2>>
    /\ Len(output_doc) = 2
    /\ output_doc[1].src = 0 /\ output_doc[2].src = 2
    /\ output_doc[2].backend = "reportlab"

----------------------------------------------------------------------------
(* Which pages are numbered                                                *)

\* positions p of the processed sequence with skip_first < p <= N - skip_last
RefNumbered ==
    { p \in 1..Len(page_indices) :
        /\ cfg.page_numbers.skip_first < p
        /\ p <= Len(page_indices) - cfg.page_numbers.skip_last }

====
